---- MODULE Spec2Model ----
(***************************************************************************)
(* A model of the sandboxed filesystem server (filesystem_server.py) and   *)
(* of the bulk macros of the desktop agent (desktop_agent.py).             *)
(*                                                                         *)
(* The filesystem is a function from absolute paths (sequences of names,   *)
(* <<>> is "/") to nodes.  A path argument of an operation is a record     *)
(* [abs, segs]: whether the string starts with "/", and its segments.      *)
(* Platform: POSIX, one device (os.rename never crosses filesystems), no   *)
(* permission failures, Python 3.9 - 3.12 (Path.resolve raises on a        *)
(* symlink loop).                                                          *)
(***************************************************************************)
EXTENDS Integers, Sequences, FiniteSets, TLC

VARIABLES
    fs,                 \* the filesystem: absolute path -> node
    allowed_directory,  \* MCPFilesystemServer.allowed_directory
    calls,              \* number of operations called so far
    call,               \* the last call: [op, paths, content]
    safe,               \* what _get_safe_path gave for each path argument of the last call
    result,             \* what the last call gave its caller: [kind, val]
    runs,               \* number of macros run so far
    macro,              \* the last macro run: [name, folder, batch]
    trace,              \* the calls the macro's loop made: <<[name, val]>>
    reply,              \* the macro's reply: [text, count, errors]
    conversation_history,  \* DesktopAgent.conversation_history: <<[role, content]>>
    turns,              \* number of commands given to process_user_input so far
    turn                \* the last command: what came in, what was done, what went back

vars == <<fs, allowed_directory, calls, call, safe, result, runs, macro, trace, reply,
          conversation_history, turns, turn>>

-----------------------------------------------------------------------------
(* Paths and nodes *)

Parent(p) == IF p = <<>> THEN <<>> ELSE SubSeq(p, 1, Len(p) - 1)

Basename(p) == IF p = <<>> THEN "" ELSE p[Len(p)]

\* PurePath.is_relative_to(other): other is p or an ancestor of p
IsRelativeTo(p, other) ==
    Len(other) <= Len(p) /\ SubSeq(p, 1, Len(other)) = other

DirNode == [kind |-> "dir", content |-> <<>>, abs |-> FALSE, target |-> <<>>]

FileNode(c) == [kind |-> "file", content |-> c, abs |-> FALSE, target |-> <<>>]

SockNode == [kind |-> "sock", content |-> <<>>, abs |-> FALSE, target |-> <<>>]

LinkNode(a, t) == [kind |-> "link", content |-> <<>>, abs |-> a, target |-> t]

Rel(s) == [abs |-> FALSE, segs |-> s]

Abs(s) == [abs |-> TRUE, segs |-> s]

-----------------------------------------------------------------------------
(* Path.resolve(strict=False): ".." pops the path resolved so far, a       *)
(* symlink is replaced by its resolved target, a component that does not   *)
(* exist (or lies under a non-directory) is kept as written.  A symlink    *)
(* met again while it is being resolved is a loop: RuntimeError.           *)

RECURSIVE Walk(_, _, _, _)
Walk(f, cur, rest, inprog) ==
    IF rest = <<>> THEN [ok |-> TRUE, path |-> cur]
    ELSE LET name == Head(rest)
             more == Tail(rest)
             np   == Append(cur, name)
         IN  IF name = "." THEN Walk(f, cur, more, inprog)
             ELSE IF name = ".." THEN Walk(f, Parent(cur), more, inprog)
             ELSE IF np \in DOMAIN f /\ f[np].kind = "link"
                  THEN IF np \in inprog THEN [ok |-> FALSE, path |-> np]
                       ELSE LET t == Walk(f, IF f[np].abs THEN <<>> ELSE cur,
                                          f[np].target, inprog \cup {np})
                            IN  IF t.ok THEN Walk(f, t.path, more, inprog) ELSE t
                  ELSE Walk(f, np, more, inprog)

\* Path(p).resolve() of an absolute path p
Resolve(f, p) == Walk(f, <<>>, p, {})

\* os.stat(p), following symlinks: the node, or why there is none
Stat(f, p) ==
    LET r == Resolve(f, p)
    IN  IF ~r.ok THEN [kind |-> "ELOOP"]
        ELSE IF r.path \in DOMAIN f THEN f[r.path]
        ELSE [kind |-> "ENOENT"]

PathExists(f, p) == Stat(f, p).kind \in {"dir", "file", "sock"}

IsDir(f, p) == Stat(f, p).kind = "dir"

IsFile(f, p) == Stat(f, p).kind = "file"

\* MCPFilesystemServer._is_path_allowed
IsPathAllowed(root, f, p) ==
    LET r == Resolve(f, p)
    IN  IF ~r.ok THEN FALSE ELSE IsRelativeTo(r.path, root)

\* The first step of _get_safe_path: the argument made absolute and resolved
ArgPath(root, f, arg) ==
    IF arg.abs THEN Resolve(f, arg.segs) ELSE Resolve(f, root \o arg.segs)

\* os.path.normpath: "." and ".." folded without looking at the filesystem
Normpath(p) == Walk(<<>> :> DirNode, <<>>, p, {}).path

\* Faulty variant: the boundary check made on the path as written, symlinks unresolved
GetSafePathLexical(root, f, arg) ==
    LET r == ArgPath(root, f, arg)
        n == Normpath(IF arg.abs THEN arg.segs ELSE root \o arg.segs)
    IN  IF ~r.ok THEN [status |-> "RuntimeError", path |-> r.path]
        ELSE IF ~IsRelativeTo(n, root)
             THEN [status |-> "PermissionError", path |-> r.path]
             ELSE [status |-> "ok", path |-> r.path]

\* MCPFilesystemServer._get_safe_path: the resolved path, or the exception
GetSafePath(root, f, arg) ==
    LET r == ArgPath(root, f, arg)
    IN  IF ~r.ok THEN [status |-> "RuntimeError", path |-> r.path]
        ELSE IF ~IsPathAllowed(root, f, r.path)
             THEN [status |-> "PermissionError", path |-> r.path]
             ELSE [status |-> "ok", path |-> r.path]

-----------------------------------------------------------------------------
(* What an operation's body does: the filesystem it leaves, and whether it *)
(* returned a payload or raised an exception (val is then str(e)).         *)

Return(f, v) == [fs |-> f, kind |-> "return", val |-> v]

Raise(f, e) == [fs |-> f, kind |-> "raise", val |-> e]

\* Faulty variant: except PermissionError only: the other exceptions reach the caller
CatchOnlyPermissionError(o) ==
    IF o.kind = "raise" /\ o.val = "Access denied to path"
    THEN Return(o.fs, [error |-> o.val]) ELSE o

\* The "except Exception as e: return {"error": str(e)}" of every operation
Catch(o) == IF o.kind = "raise" THEN Return(o.fs, [error |-> o.val]) ELSE o

\* The exception _get_safe_path raised
SafeError(f, g) ==
    Raise(f, IF g.status = "PermissionError" THEN "Access denied to path"
             ELSE "Symlink loop")

Children(f, p) == {q \in DOMAIN f : Len(q) = Len(p) + 1 /\ Parent(q) = p}

Without(f, gone) == [q \in DOMAIN f \ gone |-> f[q]]

With(f, p, node) == [q \in DOMAIN f \cup {p} |-> IF q = p THEN node ELSE f[q]]

Prefixes(p) == {SubSeq(p, 1, n) : n \in 0..Len(p)}

\* Faulty variant: Path.mkdir(parents=True), exist_ok left at its default
MkdirNoExistOk(f, p) ==
    IF \E q \in Prefixes(p) \ {p} : q \in DOMAIN f /\ f[q].kind # "dir"
    THEN Raise(f, "Not a directory")
    ELSE IF p \in DOMAIN f THEN Raise(f, "File exists")
    ELSE Return([q \in DOMAIN f \cup Prefixes(p) |->
                    IF q \in DOMAIN f THEN f[q] ELSE DirNode], p)

\* Path.mkdir(parents=True, exist_ok=True)
Mkdir(f, p) ==
    IF \E q \in Prefixes(p) \ {p} : q \in DOMAIN f /\ f[q].kind # "dir"
    THEN Raise(f, "Not a directory")
    ELSE IF p \in DOMAIN f /\ f[p].kind # "dir" THEN Raise(f, "File exists")
    ELSE Return([q \in DOMAIN f \cup Prefixes(p) |->
                    IF q \in DOMAIN f THEN f[q] ELSE DirNode], p)

-----------------------------------------------------------------------------
(* Text and bytes.  A text is a sequence of the characters "x", "CR",      *)
(* "LF"; a file's content is a sequence of bytes, "xFF" being a byte that  *)
(* is not UTF-8.                                                           *)

\* os.linesep on POSIX
Linesep == <<"LF">>

\* TextIOWrapper writing with newline=None: "\n" becomes os.linesep
RECURSIVE EncodeText(_)
EncodeText(t) ==
    IF t = <<>> THEN <<>>
    ELSE (IF Head(t) = "LF" THEN Linesep ELSE <<Head(t)>>) \o EncodeText(Tail(t))

\* TextIOWrapper reading with newline=None (universal newlines):
\* "\r\n" and "\r" become "\n"
RECURSIVE DecodeText(_)
DecodeText(b) ==
    IF b = <<>> THEN <<>>
    ELSE IF Head(b) = "CR"
         THEN IF Len(b) >= 2 /\ b[2] = "LF"
              THEN <<"LF">> \o DecodeText(Tail(Tail(b)))
              ELSE <<"LF">> \o DecodeText(Tail(b))
         ELSE <<Head(b)>> \o DecodeText(Tail(b))

IsUtf8(b) == \A i \in 1..Len(b) : b[i] # "xFF"

\* Path.write_text(content, encoding='utf-8'): open(p, 'w') then write
WriteText(f, p, t) ==
    IF p \in DOMAIN f /\ f[p].kind = "dir" THEN Raise(f, "Is a directory")
    ELSE IF p \in DOMAIN f /\ f[p].kind = "sock"
         THEN Raise(f, "No such device or address")
    ELSE IF ~(Parent(p) \in DOMAIN f /\ f[Parent(p)].kind = "dir")
         THEN Raise(f, "No such file or directory")
    ELSE Return(With(f, p, FileNode(EncodeText(t))), p)

-----------------------------------------------------------------------------
(* The seven operations of MCPFilesystemServer.  Each gives the outcome    *)
(* its caller sees: the filesystem left behind and the payload returned.   *)

\* The children of p whose stat() fails: a dangling symlink, a symlink loop
BadChildren(f, p) == {q \in Children(f, p) : Stat(f, q).kind \in {"ENOENT", "ELOOP"}}

\* The iteration of list_directory stops at the first child whose stat()
\* raises; iterdir's order is arbitrary, so it may be any of them.
FirstBad(root, f, arg) ==
    LET g == GetSafePath(root, f, arg)
    IN  IF g.status = "ok" /\ BadChildren(f, g.path) # {}
        THEN BadChildren(f, g.path) ELSE {<<>>}

ItemOf(f, q) ==
    [name |-> Basename(q),
     type |-> IF IsDir(f, q) THEN "directory" ELSE "file"]

ListDirectory(root, f, arg, bad) ==
    Catch(LET g == GetSafePath(root, f, arg)
              p == g.path
          IN  IF g.status # "ok" THEN SafeError(f, g)
              ELSE IF ~PathExists(f, p)
                   THEN Return(f, [error |-> "Directory does not exist"])
              ELSE IF ~IsDir(f, p)
                   THEN Return(f, [error |-> "Path is not a directory"])
              ELSE IF bad \in BadChildren(f, p)
                   THEN Raise(f, IF Stat(f, bad).kind = "ENOENT"
                                 THEN "No such file or directory"
                                 ELSE "Too many levels of symbolic links")
              ELSE Return(f, [path  |-> p,
                              items |-> {ItemOf(f, q) : q \in Children(f, p)},
                              count |-> Cardinality(Children(f, p))]))

ReadFile(root, f, arg) ==
    Catch(LET g == GetSafePath(root, f, arg)
              p == g.path
          IN  IF g.status # "ok" THEN SafeError(f, g)
              ELSE IF ~PathExists(f, p)
                   THEN Return(f, [error |-> "File does not exist"])
              ELSE IF ~IsFile(f, p)
                   THEN Return(f, [error |-> "Path is not a file"])
              ELSE IF IsUtf8(f[p].content)
                   THEN Return(f, [path    |-> p,
                                   content |-> DecodeText(f[p].content),
                                   size    |-> Len(DecodeText(f[p].content)),
                                   type    |-> "text"])
                   ELSE Return(f, [path    |-> p,
                                   content |-> <<"<Binary file>">>,
                                   size    |-> Len(f[p].content),
                                   type    |-> "binary"]))

WriteFile(root, f, arg, content) ==
    Catch(LET g == GetSafePath(root, f, arg)
              p == g.path
              m == Mkdir(f, Parent(p))
              w == WriteText(m.fs, p, content)
          IN  IF g.status # "ok" THEN SafeError(f, g)
              ELSE IF m.kind = "raise" THEN m
              ELSE IF w.kind = "raise" THEN w
              ELSE Return(w.fs, [path    |-> p,
                                 size    |-> Len(content),
                                 message |-> "File written successfully"]))

CreateDirectory(root, f, arg) ==
    Catch(LET g == GetSafePath(root, f, arg)
              p == g.path
              m == Mkdir(f, p)
          IN  IF g.status # "ok" THEN SafeError(f, g)
              ELSE IF m.kind = "raise" THEN m
              ELSE Return(m.fs, [path    |-> p,
                                 message |-> "Directory created successfully"]))

\* Faulty variant: os.rmdir in place of shutil.rmtree, what is below stays
RmtreeShallow(f, p) == Without(f, {p})

\* shutil.rmtree(p): p and everything below it; symlinks are not followed
Rmtree(f, p) == Without(f, {q \in DOMAIN f : IsRelativeTo(q, p)})

DeleteFile(root, f, arg) ==
    Catch(LET g == GetSafePath(root, f, arg)
              p == g.path
          IN  IF g.status # "ok" THEN SafeError(f, g)
              ELSE IF ~PathExists(f, p)
                   THEN Return(f, [error |-> "Path does not exist"])
              ELSE IF IsFile(f, p)
                   THEN Return(Without(f, {p}),
                               [path |-> p, message |-> "File deleted successfully"])
              ELSE IF IsDir(f, p)
                   THEN Return(Rmtree(f, p),
                               [path |-> p, message |-> "Directory deleted successfully"])
              ELSE Return(f, [error |-> "Unknown path type"]))

\* os.rename(src, dst) once it is known to succeed: the subtree at src is
\* re-rooted at dst, replacing what was there
Rename(f, src, dst) ==
    IF src = dst THEN f
    ELSE LET moved == {q \in DOMAIN f : IsRelativeTo(q, src)}
             to(q) == dst \o SubSeq(q, Len(src) + 1, Len(q))
             kept  == (DOMAIN f \ moved) \ {dst}
         IN  [q \in kept \cup {to(m) : m \in moved} |->
                 IF q \in kept THEN f[q]
                 ELSE f[CHOOSE m \in moved : to(m) = q]]

\* shutil.move(src, dst); it returns real_dst
ShutilMove(f, src, dst) ==
    LET into == IsDir(f, dst) /\ src # dst
        real == IF into THEN Append(dst, Basename(src)) ELSE dst
    IN  IF into /\ PathExists(f, real)
        THEN Raise(f, "Destination path already exists")
        ELSE IF src # real /\ IsRelativeTo(real, src)
             THEN Raise(f, "Cannot move a directory into itself")
        ELSE IF f[src].kind = "dir" /\ real \in DOMAIN f /\ src # real
             THEN Raise(f, "File exists")
        ELSE Return(Rename(f, src, real), real)

\* Faulty variant: the destination is checked only after the move
MoveFileLateCheck(root, f, source, destination) ==
    Catch(LET g1 == GetSafePath(root, f, source)
              r2 == ArgPath(root, f, destination)
              g2 == GetSafePath(root, f, destination)
              m  == Mkdir(f, Parent(r2.path))
              mv == ShutilMove(m.fs, g1.path, r2.path)
          IN  IF g1.status # "ok" THEN SafeError(f, g1)
              ELSE IF ~r2.ok THEN SafeError(f, g2)
              ELSE IF ~PathExists(f, g1.path)
                   THEN Return(f, [error |-> "Source does not exist"])
              ELSE IF m.kind = "raise" THEN m
              ELSE IF mv.kind = "raise" THEN mv
              ELSE IF g2.status # "ok" THEN SafeError(mv.fs, g2)
              ELSE Return(mv.fs, [source      |-> g1.path,
                                  destination |-> g2.path,
                                  message     |-> "File moved successfully"]))

MoveFile(root, f, source, destination) ==
    Catch(LET g1 == GetSafePath(root, f, source)
              g2 == GetSafePath(root, f, destination)
              m  == Mkdir(f, Parent(g2.path))
              mv == ShutilMove(m.fs, g1.path, g2.path)
          IN  IF g1.status # "ok" THEN SafeError(f, g1)
              ELSE IF g2.status # "ok" THEN SafeError(f, g2)
              ELSE IF ~PathExists(f, g1.path)
                   THEN Return(f, [error |-> "Source does not exist"])
              ELSE IF m.kind = "raise" THEN m
              ELSE IF mv.kind = "raise" THEN mv
              ELSE Return(mv.fs, [source      |-> g1.path,
                                  destination |-> g2.path,
                                  message     |-> "File moved successfully"]))

\* Faulty variant: the type taken from is_file() where is_dir() is meant
GetFileInfoByIsFile(root, f, arg) ==
    Catch(LET g == GetSafePath(root, f, arg)
              p == g.path
          IN  IF g.status # "ok" THEN SafeError(f, g)
              ELSE IF ~PathExists(f, p)
                   THEN Return(f, [error |-> "Path does not exist"])
              ELSE Return(f, [path |-> p,
                              name |-> Basename(p),
                              type |-> IF IsFile(f, p) THEN "directory" ELSE "file",
                              size |-> Len(f[p].content)]))

GetFileInfo(root, f, arg) ==
    Catch(LET g == GetSafePath(root, f, arg)
              p == g.path
          IN  IF g.status # "ok" THEN SafeError(f, g)
              ELSE IF ~PathExists(f, p)
                   THEN Return(f, [error |-> "Path does not exist"])
              ELSE Return(f, [path |-> p,
                              name |-> Basename(p),
                              type |-> IF IsDir(f, p) THEN "directory" ELSE "file",
                              size |-> Len(f[p].content)]))

-----------------------------------------------------------------------------
(* The service after construction, on a filesystem that already holds      *)
(* files, directories, symlinks (into the root, out of it, dangling, a     *)
(* loop), a socket and a file that is not text.                            *)

AllowedRoot == <<"r">>

InitFS ==
    (<<>>                        :> DirNode) @@
    (<<"r">>                     :> DirNode) @@
    (<<"r", "f">>                :> FileNode(<<"x">>)) @@
    (<<"r", "b">>                :> FileNode(<<"xFF", "x">>)) @@
    (<<"r", "k">>                :> SockNode) @@
    (<<"r", "d">>                :> DirNode) @@
    (<<"r", "d", "f">>           :> FileNode(<<"x", "x">>)) @@
    (<<"r", "d", "e">>           :> DirNode) @@
    (<<"r", "d", "e", "s">>      :> DirNode) @@
    (<<"r", "d", "e", "s", "t">> :> DirNode) @@
    (<<"r", "d", "e", "l">>      :> LinkNode(TRUE, <<"r", "d", "e", "s", "t">>)) @@
    (<<"r", "out">>              :> LinkNode(FALSE, <<"..", "o">>)) @@
    (<<"r", "x">>                :> DirNode) @@
    (<<"r", "x", "loop">>        :> LinkNode(FALSE, <<"loop">>)) @@
    (<<"r", "x", "dang">>        :> LinkNode(TRUE, <<"r", "nope">>)) @@
    (<<"o">>                     :> DirNode) @@
    (<<"o", "secret">>           :> FileNode(<<"x">>))

\* The path arguments the operations are called with
PathArgs ==
    { Rel(<<>>),                                \* "."
      Rel(<<"f">>),                             \* a file
      Rel(<<"d">>),                             \* a directory with descendants
      Rel(<<"n", "m">>),                        \* nothing there, nor its parent
      Rel(<<"f", "z">>),                        \* below a file
      Rel(<<"k">>),                             \* a socket
      Rel(<<"b">>),                             \* a file that is not UTF-8
      Rel(<<"d", "f">>),                        \* a file in a directory
      Rel(<<"x", "dang">>),                     \* a dangling symlink
      Rel(<<"x">>),                             \* a directory holding broken symlinks
      Rel(<<"x", "loop">>),                     \* a symlink loop
      Rel(<<"..", "..", "etc", "passwd">>),     \* out of the root by ".."
      Rel(<<"out", "secret">>),                 \* out of the root by a symlink
      Abs(<<"o", "secret">>),                   \* out of the root, absolute
      Abs(<<"r", "f">>),                        \* in the root, absolute
      Rel(<<"d", "e", "l", "..", "..">>) }      \* ".." after a symlink

\* The texts write_file is called with
Texts == { <<"x", "LF">>, <<"x", "CR", "LF">> }

MoveSources ==
    { Rel(<<"f">>), Rel(<<"d">>), Rel(<<"n", "m">>), Rel(<<"out", "secret">>),
      Rel(<<>>) }

MoveDestinations ==
    { Rel(<<"n", "m">>), Rel(<<"d">>), Rel(<<"f">>),
      Rel(<<"..", "..", "etc", "passwd">>), Rel(<<"d", "e", "z">>) }

\* How many operations a behaviour calls
MaxCalls == 2

NoCall == [op |-> "none", paths |-> <<>>, content |-> <<>>]

NoMacro == [name |-> "none", folder |-> "", batch |-> <<>>]

NoReply == [text |-> "", count |-> 0, errors |-> <<>>]

NoTurn == [op |-> "none"]

Init ==
    /\ fs = InitFS
    /\ allowed_directory = AllowedRoot
    /\ calls = 0
    /\ call = NoCall
    /\ safe = <<>>
    /\ result = [kind |-> "none", val |-> <<>>]
    /\ runs = 0
    /\ macro = NoMacro
    /\ trace = <<>>
    /\ reply = NoReply
    /\ conversation_history = <<>>
    /\ turns = 0
    /\ turn = NoTurn

\* What _get_safe_path gave for each path argument, up to the first that raised
SafeOf(root, f, paths) ==
    LET g1 == GetSafePath(root, f, paths[1])
    IN  IF Len(paths) = 1 \/ g1.status # "ok" THEN <<g1>>
        ELSE <<g1, GetSafePath(root, f, paths[2])>>

\* One call of an operation: out is the outcome the operation's model gives
Called(op, paths, content, out) ==
    /\ calls < MaxCalls
    /\ calls' = calls + 1
    /\ call' = [op |-> op, paths |-> paths, content |-> content]
    /\ safe' = SafeOf(allowed_directory, fs, paths)
    /\ fs' = out.fs
    /\ result' = [kind |-> out.kind, val |-> out.val]
    /\ UNCHANGED <<allowed_directory, runs, macro, trace, reply, conversation_history, turns, turn>>

ListDirectoryCall ==
    \E p \in PathArgs : \E bad \in FirstBad(allowed_directory, fs, p) :
        Called("list_directory", <<p>>, <<>>,
               ListDirectory(allowed_directory, fs, p, bad))

ReadFileCall ==
    \E p \in PathArgs :
        Called("read_file", <<p>>, <<>>, ReadFile(allowed_directory, fs, p))

WriteFileCall ==
    \E p \in PathArgs : \E t \in Texts :
        Called("write_file", <<p>>, t, WriteFile(allowed_directory, fs, p, t))

CreateDirectoryCall ==
    \E p \in PathArgs :
        Called("create_directory", <<p>>, <<>>,
               CreateDirectory(allowed_directory, fs, p))

DeleteFileCall ==
    \E p \in PathArgs :
        Called("delete_file", <<p>>, <<>>, DeleteFile(allowed_directory, fs, p))

MoveFileCall ==
    \E s \in MoveSources : \E d \in MoveDestinations :
        Called("move_file", <<s, d>>, <<>>, MoveFile(allowed_directory, fs, s, d))

GetFileInfoCall ==
    \E p \in PathArgs :
        Called("get_file_info", <<p>>, <<>>, GetFileInfo(allowed_directory, fs, p))

Next ==
    \/ ListDirectoryCall
    \/ ReadFileCall
    \/ WriteFileCall
    \/ CreateDirectoryCall
    \/ DeleteFileCall
    \/ MoveFileCall
    \/ GetFileInfoCall

Spec == Init /\ [][Next]_vars

-----------------------------------------------------------------------------
(* Text: Python str and re, on strings.  Positions count from 1; the       *)
(* position Len(s) + 1 is the end of s.                                    *)

Char(s, i) == SubSeq(s, i, i)

From(s, i) == SubSeq(s, i, Len(s))

\* s.startswith(lit, i - 1)
LitAt(s, i, lit) == i + Len(lit) - 1 <= Len(s) /\ SubSeq(s, i, i + Len(lit) - 1) = lit

\* sub in s
Contains(s, sub) == \E i \in 1..(Len(s) + 1) : LitAt(s, i, sub)

StartsWith(s, lit) == LitAt(s, 1, lit)

EndsWith(s, lit) == Len(lit) <= Len(s) /\ LitAt(s, Len(s) - Len(lit) + 1, lit)

\* s.find(lit, i - 1) + 1; 0 when there is none
Find(s, lit, i) ==
    IF \E j \in i..(Len(s) + 1) : LitAt(s, j, lit)
    THEN CHOOSE j \in i..(Len(s) + 1) :
            LitAt(s, j, lit) /\ \A k \in i..(j - 1) : ~LitAt(s, k, lit)
    ELSE 0

UpperCase == "ABCDEFGHIJKLMNOPQRSTUVWXYZ"

LowerCase == "abcdefghijklmnopqrstuvwxyz"

Digits == "0123456789"

LowerChar(c) ==
    IF Contains(UpperCase, c) /\ c # "" THEN Char(LowerCase, Find(UpperCase, c, 1)) ELSE c

\* s.lower()
RECURSIVE Lower(_)
Lower(s) == IF s = "" THEN "" ELSE LowerChar(Head(s)) \o Lower(Tail(s))

\* \s, and what str.strip() strips
IsSpace(c) == c \in {" ", "\t", "\n", "\r"}

\* \w
IsWord(c) ==
    c # "" /\ (Contains(LowerCase, c) \/ Contains(UpperCase, c) \/ Contains(Digits, c) \/ c = "_")

\* Where the run of whitespace that starts at i ends (i when there is none)
RECURSIVE SpacesEnd(_, _)
SpacesEnd(s, i) == IF i <= Len(s) /\ IsSpace(Char(s, i)) THEN SpacesEnd(s, i + 1) ELSE i

\* Where the run of word characters that starts at i ends
RECURSIVE WordEnd(_, _)
WordEnd(s, i) == IF i <= Len(s) /\ IsWord(Char(s, i)) THEN WordEnd(s, i + 1) ELSE i

LStrip(s) == From(s, SpacesEnd(s, 1))

RECURSIVE RStrip(_)
RStrip(s) ==
    IF s # "" /\ IsSpace(Char(s, Len(s))) THEN RStrip(SubSeq(s, 1, Len(s) - 1)) ELSE s

\* s.strip()
Strip(s) == RStrip(LStrip(s))

\* s.split(sep), sep one character
RECURSIVE Split(_, _)
Split(s, sep) ==
    LET c == Find(s, sep, 1)
    IN  IF c = 0 THEN <<s>>
        ELSE <<SubSeq(s, 1, c - 1)>> \o Split(From(s, c + 1), sep)

\* The least position in i..n where P holds; 0 when there is none
First(i, n, P(_)) ==
    IF \E j \in i..n : P(j)
    THEN CHOOSE j \in i..n : P(j) /\ \A k \in i..(j - 1) : ~P(k)
    ELSE 0

NoMatch == [found |-> FALSE]

-----------------------------------------------------------------------------
(* The bulk macros of DesktopAgent.  A macro lists the root, picks its     *)
(* files in the order of the listing (iterdir's order: any), and calls     *)
(* move_file or delete_file on one after the other.  trace is the calls    *)
(* the loop made, reply what the macro returned.                           *)

ImageExtensions == {".jpg", ".jpeg", ".png", ".gif", ".bmp", ".tiff", ".webp"}

\* any(name_lower.endswith(ext) for ext in image_extensions)
IsImageName(name) == \E ext \in ImageExtensions : EndsWith(Lower(name), ext)

\* The orders a set of names can be listed in
Orders(S) ==
    {b \in [1..Cardinality(S) -> S] : \A i, j \in 1..Cardinality(S) : b[i] = b[j] => i = j}

\* The names of a listing's items of type "file"
FileNames(listing) == {it.name : it \in {x \in listing.items : x.type = "file"}}

ImageNames(listing) == {n \in FileNames(listing) : IsImageName(n)}

Here == Rel(<<".">>)

Entry(name, out) == [name |-> name, val |-> out.val]

\* Faulty variant: the loop goes on after a failed move
RECURSIVE MoveLoopContinue(_, _, _, _, _)
MoveLoopContinue(root, f, batch, folder, done) ==
    IF batch = <<>> THEN [fs |-> f, trace |-> done]
    ELSE LET name == Head(batch)
             out  == MoveFile(root, f, Rel(<<".", name>>), Rel(<<".", folder, name>>))
         IN  MoveLoopContinue(root, out.fs, Tail(batch), folder,
                              Append(done, Entry(name, out)))

\* move_images_to_folder, the loop: it returns at the first error
RECURSIVE MoveLoop(_, _, _, _, _)
MoveLoop(root, f, batch, folder, done) ==
    IF batch = <<>> THEN [fs |-> f, trace |-> done]
    ELSE LET name == Head(batch)
             out  == MoveFile(root, f, Rel(<<".", name>>), Rel(<<".", folder, name>>))
         IN  IF "error" \in DOMAIN out.val
             THEN [fs |-> out.fs, trace |-> Append(done, Entry(name, out))]
             ELSE MoveLoop(root, out.fs, Tail(batch), folder,
                           Append(done, Entry(name, out)))

\* delete_images, the loop: it returns at the first error
RECURSIVE DeleteLoop(_, _, _, _)
DeleteLoop(root, f, batch, done) ==
    IF batch = <<>> THEN [fs |-> f, trace |-> done]
    ELSE LET name == Head(batch)
             out  == DeleteFile(root, f, Rel(<<name>>))
         IN  IF "error" \in DOMAIN out.val
             THEN [fs |-> out.fs, trace |-> Append(done, Entry(name, out))]
             ELSE DeleteLoop(root, out.fs, Tail(batch), Append(done, Entry(name, out)))

\* delete_all_files_in_current_folder, the loop: it goes on after an error
RECURSIVE DeleteAllLoop(_, _, _, _)
DeleteAllLoop(root, f, batch, done) ==
    IF batch = <<>> THEN [fs |-> f, trace |-> done]
    ELSE LET name == Head(batch)
             out  == DeleteFile(root, f, Rel(<<name>>))
         IN  DeleteAllLoop(root, out.fs, Tail(batch), Append(done, Entry(name, out)))

Failures(t) == SelectSeq(t, LAMBDA e : "error" \in DOMAIN e.val)

Successes(t) == SelectSeq(t, LAMBDA e : "error" \notin DOMAIN e.val)

Last(t) == t[Len(t)]

MacroReply(text, count, errors) == [text |-> text, count |-> count, errors |-> errors]

\* move_images_to_folder and delete_images: the reply after the loop
ImageMacroReply(batch, t, none, failed, done) ==
    IF batch = <<>> THEN MacroReply(none, 0, <<>>)
    ELSE IF "error" \in DOMAIN Last(t).val
         THEN MacroReply(failed, 0, <<[file |-> Last(t).name, error |-> Last(t).val.error]>>)
         ELSE MacroReply(done, Len(batch), <<>>)

\* delete_all_files_in_current_folder: the reply after the loop
DeleteAllReply(batch, t) ==
    IF batch = <<>> THEN MacroReply("No files found in the current folder to delete", 0, <<>>)
    ELSE IF Failures(t) # <<>>
         THEN MacroReply("Deleted files. Some errors occurred", Len(Successes(t)),
                         [i \in 1..Len(Failures(t)) |->
                             [file |-> Failures(t)[i].name, error |-> Failures(t)[i].val.error]])
         ELSE MacroReply("Successfully deleted files in the current folder",
                         Len(Successes(t)), <<>>)

ListingFailed(text, listing) ==
    MacroReply(text, 0, <<[file |-> "", error |-> listing.error]>>)

\* The folders a move is asked for: a new one, an existing one, and the name
\* of a symlink to a file
Folders == {"pics", "sub", "ln"}

\* A root as the macros are meant for: files and a subdirectory
PlainFS ==
    (<<>> :> DirNode) @@
    (<<"r">> :> DirNode) @@
    (<<"r", "a.jpg">> :> FileNode(<<"x">>)) @@
    (<<"r", "B.PNG">> :> FileNode(<<"x">>)) @@
    (<<"r", "n.txt">> :> FileNode(<<"x">>)) @@
    (<<"r", "sub">> :> DirNode) @@
    (<<"r", "sub", "c.jpg">> :> FileNode(<<"x">>))

\* The same root with two symlinks in it: one to a file outside the root,
\* one to a file in the subdirectory
LinkedFS ==
    PlainFS @@
    (<<"r", "o.gif">> :> LinkNode(TRUE, <<"o", "s.gif">>)) @@
    (<<"r", "ln">> :> LinkNode(FALSE, <<"sub", "c.jpg">>)) @@
    (<<"o">> :> DirNode) @@
    (<<"o", "s.gif">> :> FileNode(<<"x">>))

\* A root that cannot be listed: it holds a dangling symlink
BrokenFS ==
    (<<>> :> DirNode) @@
    (<<"r">> :> DirNode) @@
    (<<"r", "a.jpg">> :> FileNode(<<"x">>)) @@
    (<<"r", "gone">> :> LinkNode(FALSE, <<"nope">>))

\* How many macros a behaviour runs
MaxRuns == 2

InitMacro ==
    /\ fs \in {PlainFS, LinkedFS, BrokenFS}
    /\ allowed_directory = AllowedRoot
    /\ calls = 0
    /\ call = NoCall
    /\ safe = <<>>
    /\ result = [kind |-> "none", val |-> <<>>]
    /\ runs = 0
    /\ macro = NoMacro
    /\ trace = <<>>
    /\ reply = NoReply
    /\ conversation_history = <<>>
    /\ turns = 0
    /\ turn = NoTurn

\* One run of a macro over the files batch, in this order
Ran(name, folder, batch, out, rep) ==
    /\ runs < MaxRuns
    /\ runs' = runs + 1
    /\ macro' = [name |-> name, folder |-> folder, batch |-> batch]
    /\ fs' = out.fs
    /\ trace' = out.trace
    /\ reply' = rep
    /\ UNCHANGED <<allowed_directory, calls, call, safe, result, conversation_history, turns, turn>>

NotListed(name, folder, text, listing) ==
    Ran(name, folder, <<>>, [fs |-> fs, trace |-> <<>>], ListingFailed(text, listing))

MoveImagesToFolder ==
    \E folder \in Folders : \E bad \in FirstBad(allowed_directory, fs, Here) :
        LET listing == ListDirectory(allowed_directory, fs, Here, bad).val
        IN  IF "error" \in DOMAIN listing
            THEN NotListed("move_images_to_folder", folder, "Error listing files", listing)
            ELSE \E batch \in Orders(ImageNames(listing)) :
                    LET out == MoveLoop(allowed_directory, fs, batch, folder, <<>>)
                    IN  Ran("move_images_to_folder", folder, batch, out,
                            ImageMacroReply(batch, out.trace,
                                            "No image files found to move",
                                            "Error moving", "Successfully moved"))

DeleteImages ==
    \E bad \in FirstBad(allowed_directory, fs, Here) :
        LET listing == ListDirectory(allowed_directory, fs, Here, bad).val
        IN  IF "error" \in DOMAIN listing
            THEN NotListed("delete_images", "", "Error listing files", listing)
            ELSE \E batch \in Orders(ImageNames(listing)) :
                    LET out == DeleteLoop(allowed_directory, fs, batch, <<>>)
                    IN  Ran("delete_images", "", batch, out,
                            ImageMacroReply(batch, out.trace,
                                            "No image files found to delete",
                                            "Error deleting", "Successfully deleted"))

DeleteAllFilesInCurrentFolder ==
    \E bad \in FirstBad(allowed_directory, fs, Here) :
        LET listing == ListDirectory(allowed_directory, fs, Here, bad).val
        IN  IF "error" \in DOMAIN listing
            THEN NotListed("delete_all_files_in_current_folder", "",
                           "Error listing files to delete", listing)
            ELSE \E batch \in Orders(FileNames(listing)) :
                    LET out == DeleteAllLoop(allowed_directory, fs, batch, <<>>)
                    IN  Ran("delete_all_files_in_current_folder", "", batch, out,
                            DeleteAllReply(batch, out.trace))

NextMacro ==
    \/ MoveImagesToFolder
    \/ DeleteImages
    \/ DeleteAllFilesInCurrentFolder

SpecMacro == InitMacro /\ [][NextMacro]_vars

-----------------------------------------------------------------------------
(* Properties of the filesystem server *)

Succeeded(res) == res.kind = "return" /\ "error" \notin DOMAIN res.val

FailedWith(res, msg) == res.kind = "return" /\ res.val = [error |-> msg]

HasError(res) == res.kind = "return" /\ "error" \in DOMAIN res.val

InRoot(p) == IsRelativeTo(p, AllowedRoot)

\* Where a path argument resolves, relative arguments from the allowed root
ArgResolve(f, arg) == Resolve(f, IF arg.abs THEN arg.segs ELSE AllowedRoot \o arg.segs)

\* Path(arg).exists(), from the allowed root
ArgExists(f, arg) ==
    PathExists(f, IF arg.abs THEN arg.segs ELSE AllowedRoot \o arg.segs)

ArgOutside(f, arg) == ArgResolve(f, arg).ok /\ ~InRoot(ArgResolve(f, arg).path)

ArgInside(f, arg) == ArgResolve(f, arg).ok /\ InRoot(ArgResolve(f, arg).path)

\* An operation was called in this step
Step == calls' = calls + 1

\* The same operation arguments as the call before
SamePaths == call'.paths = call.paths

\* C1 as stated: every path argument either resolves to a returned path in
\* the allowed root, or fails with access denied.
C1_ResolvedOrDenied ==
    \A i \in 1..Len(safe) :
        \/ safe[i].status = "ok" /\ InRoot(safe[i].path)
        \/ safe[i].status = "PermissionError"

\* C1 amended: _get_safe_path returns only paths that are the allowed root or
\* below it; a path that resolves elsewhere fails with access denied, and a
\* path that runs into a symlink loop fails with the resolver's error.
C1_SafePathInRoot ==
    \A i \in 1..Len(safe) :
        /\ safe[i].status \in {"ok", "PermissionError", "RuntimeError"}
        /\ safe[i].status = "ok" => InRoot(safe[i].path)
        /\ safe[i].status = "PermissionError" => ~InRoot(safe[i].path)
        /\ safe[i].status = "RuntimeError" => ~ArgResolve(fs, call.paths[i]).ok

\* C1 reached: a read through a symlink that leads out of the root was denied
C1_Witness ==
    /\ call.op = "read_file"
    /\ call.paths = <<Rel(<<"out", "secret">>)>>
    /\ safe = <<[status |-> "PermissionError", path |-> <<"o", "secret">>]>>
    /\ FailedWith(result, "Access denied to path")

\* C2: a call with a path argument that resolves outside the allowed root
\* returns an error payload and leaves the filesystem as it was.
C2_OutsideArgNoMutation ==
    [][(Step /\ \E i \in 1..Len(call'.paths) : ArgOutside(fs, call'.paths[i]))
          => (HasError(result') /\ fs' = fs)]_vars

\* C2 reached: a move to a destination outside the root failed and moved nothing
C2_Witness ==
    /\ call.op = "move_file"
    /\ call.paths = <<Rel(<<"f">>), Rel(<<"..", "..", "etc", "passwd">>)>>
    /\ FailedWith(result, "Access denied to path")
    /\ fs = InitFS

\* C3: the allowed root exists, is a directory, and the stored root is the
\* one given at construction.
C3_RootIntact ==
    /\ allowed_directory = AllowedRoot
    /\ AllowedRoot \in DOMAIN fs
    /\ fs[AllowedRoot].kind = "dir"

ErrorMessages ==
    { "Access denied to path", "Symlink loop", "Directory does not exist",
      "Path is not a directory", "No such file or directory",
      "Too many levels of symbolic links", "File does not exist",
      "Path is not a file", "Not a directory", "File exists", "Is a directory",
      "No such device or address", "Path does not exist", "Unknown path type",
      "Source does not exist", "Destination path already exists",
      "Cannot move a directory into itself" }

\* C4: every call returns a payload, which is either a success payload with
\* no 'error' field or an error payload that is just an 'error' string; no
\* call raises.
C4_ResultShape ==
    calls > 0 =>
        /\ result.kind = "return"
        /\ DOMAIN result.val # {}
        /\ "error" \in DOMAIN result.val =>
              DOMAIN result.val = {"error"} /\ result.val.error \in ErrorMessages

\* C4 reached: an exception of the body (write to a directory) came back as a payload
C4_Witness ==
    /\ call.op = "write_file"
    /\ call.paths = <<Rel(<<"d">>)>>
    /\ result = [kind |-> "return", val |-> [error |-> "Is a directory"]]

\* C5: a successful write_file creates the missing parent directories and
\* an immediately following read_file of the same path returns the written
\* content as text.
C5_WriteThenRead ==
    [][/\ (Step /\ call'.op = "write_file" /\ Succeeded(result'))
             => \A q \in Prefixes(result'.val.path) \ {result'.val.path} :
                    q \in DOMAIN fs' /\ fs'[q].kind = "dir"
       /\ (Step /\ call.op = "write_file" /\ Succeeded(result)
                /\ call'.op = "read_file" /\ SamePaths)
             => /\ Succeeded(result')
                /\ result'.val.type = "text"
                /\ result'.val.content = call.content]_vars

\* C6 as stated: a successful delete_file leaves nothing at the path, and a
\* second delete_file of the same path returns not found and changes nothing.
C6_DeleteTwiceSamePath ==
    [][/\ (Step /\ call'.op = "delete_file" /\ Succeeded(result'))
             => result'.val.path \notin DOMAIN fs'
       /\ (Step /\ call.op = "delete_file" /\ Succeeded(result)
                /\ call'.op = "delete_file" /\ SamePaths)
             => (FailedWith(result', "Path does not exist") /\ fs' = fs)]_vars

\* C6 amended: a successful delete_file removes the file or directory its
\* argument resolves to, with everything below it, and nothing else; a
\* second delete_file whose argument resolves to that same location returns
\* not found and changes nothing.
C6_DeleteResolved ==
    [][/\ (Step /\ call'.op = "delete_file" /\ Succeeded(result'))
             => LET p == result'.val.path
                IN  /\ p = safe'[1].path
                    /\ p \in DOMAIN fs /\ fs[p].kind \in {"file", "dir"}
                    /\ DOMAIN fs' = {q \in DOMAIN fs : ~IsRelativeTo(q, p)}
                    /\ \A q \in DOMAIN fs' : fs'[q] = fs[q]
       /\ (Step /\ call.op = "delete_file" /\ Succeeded(result)
                /\ call'.op = "delete_file"
                /\ safe'[1].status = "ok" /\ safe'[1].path = safe[1].path)
             => (FailedWith(result', "Path does not exist") /\ fs' = fs)]_vars

\* C6 reached: the directory d was deleted with all below it, the second delete found nothing
C6_Witness ==
    /\ calls = 2
    /\ call.op = "delete_file"
    /\ call.paths = <<Rel(<<"d">>)>>
    /\ FailedWith(result, "Path does not exist")
    /\ DOMAIN fs = {q \in DOMAIN InitFS : ~IsRelativeTo(q, <<"r", "d">>)}

\* C7: create_directory of a directory that exists succeeds and changes
\* nothing, so a second call of the same path leaves the filesystem of the
\* first; a successful call has created the missing ancestors.
C7_CreateDirectoryIdempotent ==
    [][/\ (Step /\ call'.op = "create_directory" /\ ArgInside(fs, call'.paths[1])
                /\ IsDir(fs, ArgResolve(fs, call'.paths[1]).path))
             => (Succeeded(result') /\ fs' = fs)
       /\ (Step /\ call.op = "create_directory" /\ Succeeded(result)
                /\ call'.op = "create_directory" /\ SamePaths)
             => (Succeeded(result') /\ fs' = fs /\ result'.val = result.val)
       /\ (Step /\ call'.op = "create_directory" /\ Succeeded(result'))
             => /\ \A q \in Prefixes(result'.val.path) :
                       q \in DOMAIN fs' /\ fs'[q].kind = "dir"
                /\ DOMAIN fs' = DOMAIN fs \cup Prefixes(result'.val.path)
                /\ \A q \in DOMAIN fs : fs'[q] = fs[q]]_vars

\* C7 reached: n/m created with its ancestor n, and created again
C7_Witness ==
    /\ calls = 2
    /\ call.op = "create_directory"
    /\ call.paths = <<Rel(<<"n", "m">>)>>
    /\ Succeeded(result)
    /\ DOMAIN fs = DOMAIN InitFS \cup {<<"r", "n">>, <<"r", "n", "m">>}
    /\ fs[<<"r", "n", "m">>].kind = "dir"

\* C8: get_file_info right after a successful create_directory of the same
\* path reports a directory at the path create_directory reported; for a
\* path that resolves in the root to nothing, it returns not found.
C8_InfoAfterCreate ==
    [][/\ (Step /\ call.op = "create_directory" /\ Succeeded(result)
                /\ call'.op = "get_file_info" /\ SamePaths)
             => /\ Succeeded(result')
                /\ result'.val.type = "directory"
                /\ result'.val.path = result.val.path
       /\ (Step /\ call'.op = "get_file_info" /\ ArgInside(fs, call'.paths[1])
                /\ ~ArgExists(fs, call'.paths[1]))
             => (FailedWith(result', "Path does not exist") /\ fs' = fs)]_vars

\* C8 reached: get_file_info of n/m right after it was created
C8_Witness ==
    /\ calls = 2
    /\ call.op = "get_file_info"
    /\ call.paths = <<Rel(<<"n", "m">>)>>
    /\ Succeeded(result)
    /\ result.val.type = "directory"
    /\ result.val.path = <<"r", "n", "m">>
    /\ DOMAIN fs = DOMAIN InitFS \cup {<<"r", "n">>, <<"r", "n", "m">>}

-----------------------------------------------------------------------------
(* Properties of the bulk macros *)

Run(name) == runs' = runs + 1 /\ macro'.name = name

Listed == reply'.text \notin {"Error listing files", "Error listing files to delete"}

Names(t) == {t[i].name : i \in 1..Len(t)}

RootFiles(f) == {q \in Children(f, AllowedRoot) : f[q].kind = "file"}

\* C9: the delete-all-files macro calls delete on every regular file that is
\* a direct child of the root and goes on after a failure, reporting every
\* failure; no directory and nothing below a subdirectory is deleted or
\* modified; the count it reports is the number of files deleted.
C9_DeleteAllOnlyRootFiles ==
    [][(Run("delete_all_files_in_current_folder") /\ Listed)
         => /\ \A q \in RootFiles(fs) : Basename(q) \in Names(trace')
            /\ Len(trace') = Len(macro'.batch)
            /\ Len(reply'.errors) = Len(Failures(trace'))
            /\ \A q \in DOMAIN fs :
                  (InRoot(q) /\ (fs[q].kind = "dir" \/ Len(q) > Len(AllowedRoot) + 1))
                      => q \in DOMAIN fs' /\ fs'[q] = fs[q]
            /\ reply'.count = Cardinality(RootFiles(fs) \ DOMAIN fs')]_vars

ImageMacros == {"move_images_to_folder", "delete_images"}

AllButLastSucceeded(t) == \A i \in 1..(Len(t) - 1) : "error" \notin DOMAIN t[i].val

\* C10: the image-move and image-delete macros take the files one after the
\* other in the order listed and stop at the first error: every call before
\* the last one made succeeded, the reply carries the failing file's error
\* exactly when the last call failed, the files after it are left as they
\* were, and what the earlier calls did stays done.
C10_StopAtFirstError ==
    [][(runs' = runs + 1 /\ macro'.name \in ImageMacros /\ Listed)
         => /\ Len(trace') <= Len(macro'.batch)
            /\ \A i \in 1..Len(trace') : trace'[i].name = macro'.batch[i]
            /\ AllButLastSucceeded(trace')
            /\ IF trace' # <<>> /\ "error" \in DOMAIN Last(trace').val
               THEN reply'.errors = <<[file  |-> Last(trace').name,
                                       error |-> Last(trace').val.error]>>
               ELSE /\ reply'.errors = <<>>
                    /\ Len(trace') = Len(macro'.batch)
                    /\ reply'.count = Len(macro'.batch)
            /\ \A j \in (Len(trace') + 1)..Len(macro'.batch) :
                  LET q == Append(AllowedRoot, macro'.batch[j])
                  IN  q \in DOMAIN fs' /\ fs'[q] = fs[q]
            /\ \A i \in 1..Len(trace') :
                  "error" \notin DOMAIN trace'[i].val
                      => IF macro'.name = "delete_images"
                         THEN trace'[i].val.path \notin DOMAIN fs'
                         ELSE /\ trace'[i].val.source \notin DOMAIN fs'
                              /\ trace'[i].val.destination \in DOMAIN fs']_vars

\* C10 reached: an image macro moved or deleted a file, failed on the next and left a
\* third one alone
C10_Witness ==
    /\ macro.name \in ImageMacros
    /\ Len(macro.batch) = 3
    /\ Len(trace) = 2
    /\ "error" \notin DOMAIN trace[1].val
    /\ "error" \in DOMAIN trace[2].val
    /\ reply.errors # <<>>
    /\ Append(AllowedRoot, macro.batch[3]) \in DOMAIN fs
    /\ Append(AllowedRoot, macro.batch[1]) \notin DOMAIN fs

-----------------------------------------------------------------------------
(* The regular expressions of DesktopAgent, each as the match the          *)
(* backtracking search of re finds first.                                  *)

IsQuote(c) == c \in {"'", "\""}

\* re.search(r'to\s+(\w+)', s): group 1 of the leftmost match
ToWord(s) ==
    LET ok(i) == /\ LitAt(s, i, "to")
                 /\ SpacesEnd(s, i + 2) > i + 2
                 /\ WordEnd(s, SpacesEnd(s, i + 2)) > SpacesEnd(s, i + 2)
        i == First(1, Len(s), ok)
    IN  IF i = 0 THEN NoMatch
        ELSE [found |-> TRUE,
              group |-> SubSeq(s, SpacesEnd(s, i + 2), WordEnd(s, SpacesEnd(s, i + 2)) - 1)]

\* lit\s+(\w+)\s+folder matched at j (without the \s+ when lit is empty):
\* where the word starts, 0 when there is no match at j
WordFolderAt(s, j, lit) ==
    LET a == j + Len(lit)
        b == IF lit = "" THEN a ELSE SpacesEnd(s, a)
        k == WordEnd(s, b)
    IN  IF /\ LitAt(s, j, lit)
           /\ (lit = "" \/ b > a)
           /\ k > b
           /\ SpacesEnd(s, k) > k
           /\ LitAt(s, SpacesEnd(s, k), "folder")
        THEN b ELSE 0

WordFrom(s, b) == SubSeq(s, b, WordEnd(s, b) - 1)

\* re.search(r'list.*?' + lit + r'\s+(\w+)\s+folder', s): '.' stops at a newline
ListThenFolder(s, lit) ==
    LET reach(p, j) == /\ WordFolderAt(s, j, lit) > 0
                       /\ \A k \in (p + 4)..(j - 1) : Char(s, k) # "\n"
        ok(p) == LitAt(s, p, "list") /\ \E j \in (p + 4)..Len(s) : reach(p, j)
        p == First(1, Len(s), ok)
        at(j) == reach(p, j)
    IN  IF p = 0 THEN NoMatch
        ELSE [found |-> TRUE,
              group |-> WordFrom(s, WordFolderAt(s, First(p + 4, Len(s), at), lit))]

\* re.search(lit + r'\s+(\w+)\s+folder', s), or r'(\w+)\s+folder' when lit is empty
WordFolder(s, lit) ==
    LET ok(j) == WordFolderAt(s, j, lit) > 0
        j == First(1, Len(s), ok)
    IN  IF j = 0 THEN NoMatch
        ELSE [found |-> TRUE, group |-> WordFrom(s, WordFolderAt(s, j, lit))]

\* re.search(r'folder\s+(\w+)', s)
FolderWord(s) ==
    LET b(j) == SpacesEnd(s, j + 6)
        ok(j) == LitAt(s, j, "folder") /\ b(j) > j + 6 /\ WordEnd(s, b(j)) > b(j)
        j == First(1, Len(s), ok)
    IN  IF j = 0 THEN NoMatch
        ELSE [found |-> TRUE, group |-> WordFrom(s, b(j))]

\* DesktopAgent.extract_folder_name: the first pattern that matches
ExtractFolderName(user_input) ==
    LET s == Lower(user_input)
    IN  IF ListThenFolder(s, "in").found THEN ListThenFolder(s, "in")
        ELSE IF ListThenFolder(s, "").found THEN ListThenFolder(s, "")
        ELSE IF WordFolder(s, "in").found THEN WordFolder(s, "in")
        ELSE IF FolderWord(s).found THEN FolderWord(s)
        ELSE WordFolder(s, "")

\* re.search(kw + r'\s*(\w+)\s*\((.*?)\)', response, re.DOTALL)
ToolCallWith(response, kw) ==
    LET j(i) == SpacesEnd(response, i + Len(kw))
        k(i) == WordEnd(response, j(i))
        l(i) == SpacesEnd(response, k(i))
        ok(i) == /\ LitAt(response, i, kw)
                 /\ k(i) > j(i)
                 /\ LitAt(response, l(i), "(")
                 /\ Find(response, ")", l(i) + 1) > 0
        i == First(1, Len(response), ok)
    IN  IF i = 0 THEN NoMatch
        ELSE [found     |-> TRUE,
              tool_name |-> SubSeq(response, j(i), k(i) - 1),
              tool_args |-> Strip(SubSeq(response, l(i) + 1,
                                         Find(response, ")", l(i) + 1) - 1))]

\* The tool call of a response: the TOOL_CALL pattern, else the USE_TOOL one
ToolCallMatch(response) ==
    IF ToolCallWith(response, "TOOL_CALL:").found
    THEN ToolCallWith(response, "TOOL_CALL:")
    ELSE ToolCallWith(response, "USE_TOOL:")

\* group 4 of the write_file pattern, stripped: what follows the comma, less
\* one pair of quotes around it when it starts and ends with the same quote
WriteFileContent(rest) ==
    LET r  == LStrip(rest)
        rr == RStrip(r)
    IN  IF r # "" /\ IsQuote(Head(r)) /\ Len(rr) >= 2 /\ Char(rr, Len(rr)) = Head(r)
        THEN Strip(SubSeq(rr, 2, Len(rr) - 1))
        ELSE Strip(r)

\* re.match(r'^\s*([\'"]?)(.*?)\1\s*,\s*([\'"]?)(.*)\3\s*$', tool_args, re.DOTALL)
\* and the two groups execute_tool keeps, stripped
WriteFileArguments(tool_args) ==
    LET a == LStrip(tool_args)
        closes(j) == /\ Char(a, j) = Head(a)
                     /\ LitAt(a, SpacesEnd(a, j + 1), ",")
        j == IF a # "" /\ IsQuote(Head(a)) THEN First(2, Len(a), closes) ELSE 0
        c == Find(tool_args, ",", 1)
    IN  IF j > 0
        THEN [found |-> TRUE,
              args  |-> <<Strip(SubSeq(a, 2, j - 1)),
                          WriteFileContent(From(a, SpacesEnd(a, j + 1) + 1))>>]
        ELSE IF c > 0
        THEN [found |-> TRUE,
              args  |-> <<Strip(SubSeq(tool_args, 1, c - 1)),
                          WriteFileContent(From(tool_args, c + 1))>>]
        ELSE NoMatch

\* One level of quotes off a part that starts and ends with the same quote
\* character; part[1:-1] of a part that is one quote character is empty
Unquote(part) ==
    IF (StartsWith(part, "\"") /\ EndsWith(part, "\"")) \/
       (StartsWith(part, "'") /\ EndsWith(part, "'"))
    THEN SubSeq(part, 2, Len(part) - 1)
    ELSE part

\* DesktopAgent.parse_tool_arguments
ParseToolArguments(args_str) ==
    IF Strip(args_str) = "" THEN <<".">>
    ELSE LET parts == Split(args_str, ",")
         IN  [i \in 1..Len(parts) |-> Unquote(Strip(parts[i]))]

-----------------------------------------------------------------------------
(* DesktopAgent.execute_tool: the arguments parsed from the raw argument   *)
(* string, and the operation called with them.                             *)

ToolNames ==
    {"list_directory", "read_file", "write_file", "create_directory",
     "delete_file", "move_file", "get_file_info"}

\* A path string as pathlib takes it: absolute when it starts with "/", its
\* segments those between "/", the empty ones and "." dropped
PathOf(path) ==
    [abs  |-> StartsWith(path, "/"),
     segs |-> SelectSeq(Split(path, "/"), LAMBDA x : x \notin {"", "."})]

\* A content string as the text write_file is given
RECURSIVE TextOf(_)
TextOf(content) ==
    IF content = "" THEN <<>>
    ELSE <<CASE Head(content) = "\n" -> "LF"
             [] Head(content) = "\r" -> "CR"
             [] OTHER -> Head(content)>> \o TextOf(Tail(content))

\* The argument list execute_tool dispatches on: the write_file pattern for
\* write_file, parse_tool_arguments for the other tools
ToolArguments(tool_name, tool_args) ==
    IF tool_name = "write_file" THEN WriteFileArguments(tool_args)
    ELSE [found |-> TRUE, args |-> ParseToolArguments(tool_args)]

\* tool["function"](path): a call with one argument; write_file and move_file
\* take two, the call raises TypeError
CallWithOne(root, f, tool_name, path, bad) ==
    CASE tool_name = "list_directory"   -> ListDirectory(root, f, PathOf(path), bad)
      [] tool_name = "read_file"        -> ReadFile(root, f, PathOf(path))
      [] tool_name = "create_directory" -> CreateDirectory(root, f, PathOf(path))
      [] tool_name = "delete_file"      -> DeleteFile(root, f, PathOf(path))
      [] tool_name = "get_file_info"    -> GetFileInfo(root, f, PathOf(path))
      [] OTHER -> Raise(f, "missing 1 required positional argument")

\* The children list_directory may fail on, when the tool is list_directory
ToolBad(root, f, tool_name, tool_args) ==
    IF tool_name = "list_directory"
    THEN FirstBad(root, f, PathOf(ParseToolArguments(tool_args)[1]))
    ELSE {<<>>}

\* The body of the try block of execute_tool, parsed the arguments as
\* ToolArguments gives them
CallTool(root, f, tool_name, parsed, bad) ==
    IF tool_name \notin ToolNames
    THEN Return(f, [error |-> "Tool not found"])
    ELSE IF ~parsed.found
    THEN Return(f, [error |-> "Invalid arguments for write_file"])
    ELSE IF tool_name = "write_file" /\ Len(parsed.args) = 2
    THEN WriteFile(root, f, PathOf(parsed.args[1]), TextOf(parsed.args[2]))
    ELSE IF tool_name = "move_file" /\ Len(parsed.args) = 2
    THEN MoveFile(root, f, PathOf(parsed.args[1]), PathOf(parsed.args[2]))
    ELSE CallWithOne(root, f, tool_name,
                     IF Len(parsed.args) >= 1 THEN parsed.args[1] ELSE ".", bad)

\* Faulty variant: execute_tool without its except clause
ExecuteToolUncaught(root, f, tool_name, tool_args, bad) ==
    CallTool(root, f, tool_name, ToolArguments(tool_name, tool_args), bad)

\* DesktopAgent.execute_tool
ExecuteTool(root, f, tool_name, tool_args, bad) ==
    Catch(CallTool(root, f, tool_name, ToolArguments(tool_name, tool_args), bad))

\* How many positional arguments the operation was called with; 0 when
\* execute_tool returned before calling one
Passed(tool_name, tool_args) ==
    LET parsed == ToolArguments(tool_name, tool_args)
    IN  IF tool_name \notin ToolNames \/ ~parsed.found THEN 0
        ELSE IF tool_name \in {"write_file", "move_file"} /\ Len(parsed.args) = 2 THEN 2
        ELSE 1

\* Raw argument strings: quoted and bare, with commas inside quotes, with
\* whitespace and newlines inside the content, with too many and too few
\* arguments, blank, and with quotes that do not match
RawArguments ==
    { "'note.txt', 'line1\nline2'",
      "\"a,b.txt\", \"hi, there\"",
      "note.txt, x, y",
      "'n.txt', ' hi\n'",
      "n.txt",
      "",
      "  ",
      ".",
      "'sub'",
      " \"sub\" ",
      "sub/c.jpg",
      "'a.jpg', 'pics/a.jpg'",
      "a.jpg, b, c",
      "'",
      "'a.jpg\"",
      "'it's'",
      "''sub''",
      "../x, 'y'" }

\* execute_tool given a tool name and a raw argument string
InitParse ==
    /\ fs = PlainFS
    /\ allowed_directory = AllowedRoot
    /\ calls = 0
    /\ call = NoCall
    /\ safe = <<>>
    /\ result = [kind |-> "none", val |-> <<>>]
    /\ runs = 0
    /\ macro = NoMacro
    /\ trace = <<>>
    /\ reply = NoReply
    /\ conversation_history = <<>>
    /\ turns = 0
    /\ \E tool_name \in ToolNames : \E tool_args \in RawArguments :
          turn = [op |-> "execute_tool", tool_name |-> tool_name,
                  tool_args |-> tool_args, done |-> FALSE]

ExecuteToolCall ==
    /\ turn.op = "execute_tool" /\ ~turn.done
    /\ \E bad \in ToolBad(allowed_directory, fs, turn.tool_name, turn.tool_args) :
          LET out == ExecuteTool(allowed_directory, fs, turn.tool_name, turn.tool_args, bad)
          IN  /\ fs' = out.fs
              /\ result' = [kind |-> out.kind, val |-> out.val]
              /\ turn' = [op |-> "execute_tool", tool_name |-> turn.tool_name,
                          tool_args |-> turn.tool_args, done |-> TRUE,
                          parsed |-> ToolArguments(turn.tool_name, turn.tool_args),
                          passed |-> Passed(turn.tool_name, turn.tool_args)]
    /\ UNCHANGED <<allowed_directory, calls, call, safe, runs, macro, trace, reply,
                   conversation_history, turns>>

NextParse == ExecuteToolCall

SpecParse == InitParse /\ [][NextParse]_vars

-----------------------------------------------------------------------------
(* DesktopAgent.generate_final_response and the formatters it calls.  A    *)
(* reply is a record: text is the message with its values left out, the    *)
(* other fields are the values put in.  order is the order of the items    *)
(* in the result of list_directory (iterdir's order: any).                 *)

VideoTerms == {".mp4", "video", "movie"}

VideoExtensions == {".mp4", ".avi", ".mov", ".mkv"}

ImageTerms == {".jpg", ".png", ".jpeg", "image", "photo"}

ListedImageExtensions == {".jpg", ".jpeg", ".png", ".gif", ".bmp"}

\* folders[:20] of the folder listing
FolderCap == 20

\* folders[:10] and files[:10] of the general listing
GeneralCap == 10

\* content[:500] of the file preview
PreviewCap == 500

\* any(term in original_request.lower() for term in terms)
Mentions(original_request, terms) ==
    \E t \in terms : Contains(Lower(original_request), t)

\* item["name"].lower().endswith(extensions)
NameEndsWith(name, extensions) == \E ext \in extensions : EndsWith(Lower(name), ext)

NamesOf(items) == [i \in 1..Len(items) |-> items[i].name]

\* xs[:n]
Capped(xs, n) == SubSeq(xs, 1, IF Len(xs) < n THEN Len(xs) ELSE n)

\* len(xs) - n when the list is longer than n
Beyond(xs, n) == IF Len(xs) > n THEN Len(xs) - n ELSE 0

\* Faulty variant: the image terms are tested before the video terms
FormatDirectoryListingImagesFirst(tool_result, original_request, order) ==
    LET videos  == SelectSeq(order, LAMBDA it : NameEndsWith(it.name, VideoExtensions))
        images  == SelectSeq(order, LAMBDA it : NameEndsWith(it.name, ListedImageExtensions))
        folders == SelectSeq(order, LAMBDA it : it.type = "directory")
        files   == SelectSeq(order, LAMBDA it : it.type = "file")
    IN  IF "items" \notin DOMAIN tool_result THEN [text |-> "No items found"]
        ELSE IF Mentions(original_request, ImageTerms)
        THEN IF images # <<>>
             THEN [text |-> "Found {n} image files", n |-> Len(images), shown |-> NamesOf(images)]
             ELSE [text |-> "No image files found on Desktop"]
        ELSE IF Mentions(original_request, VideoTerms)
        THEN IF videos # <<>>
             THEN [text |-> "Found {n} video files", n |-> Len(videos), shown |-> NamesOf(videos)]
             ELSE [text |-> "No video files found on Desktop"]
        ELSE IF Mentions(original_request, {"folder", "director"})
        THEN IF folders # <<>>
             THEN [text  |-> "Found {n} folders on Desktop", n |-> Len(folders),
                   shown |-> NamesOf(Capped(folders, FolderCap)),
                   more  |-> Beyond(folders, FolderCap)]
             ELSE [text |-> "No folders found on Desktop"]
        ELSE [text         |-> "Desktop contents ({n} total items)", n |-> Len(order),
              folders      |-> NamesOf(Capped(folders, GeneralCap)),
              more_folders |-> Beyond(folders, GeneralCap),
              files        |-> NamesOf(Capped(files, GeneralCap)),
              more_files   |-> Beyond(files, GeneralCap)]

\* DesktopAgent.format_directory_listing
FormatDirectoryListing(tool_result, original_request, order) ==
    LET videos  == SelectSeq(order, LAMBDA it : NameEndsWith(it.name, VideoExtensions))
        images  == SelectSeq(order, LAMBDA it : NameEndsWith(it.name, ListedImageExtensions))
        folders == SelectSeq(order, LAMBDA it : it.type = "directory")
        files   == SelectSeq(order, LAMBDA it : it.type = "file")
    IN  IF "items" \notin DOMAIN tool_result THEN [text |-> "No items found"]
        ELSE IF Mentions(original_request, VideoTerms)
        THEN IF videos # <<>>
             THEN [text |-> "Found {n} video files", n |-> Len(videos), shown |-> NamesOf(videos)]
             ELSE [text |-> "No video files found on Desktop"]
        ELSE IF Mentions(original_request, ImageTerms)
        THEN IF images # <<>>
             THEN [text |-> "Found {n} image files", n |-> Len(images), shown |-> NamesOf(images)]
             ELSE [text |-> "No image files found on Desktop"]
        ELSE IF Mentions(original_request, {"folder", "director"})
        THEN IF folders # <<>>
             THEN [text  |-> "Found {n} folders on Desktop", n |-> Len(folders),
                   shown |-> NamesOf(Capped(folders, FolderCap)),
                   more  |-> Beyond(folders, FolderCap)]
             ELSE [text |-> "No folders found on Desktop"]
        ELSE [text         |-> "Desktop contents ({n} total items)", n |-> Len(order),
              folders      |-> NamesOf(Capped(folders, GeneralCap)),
              more_folders |-> Beyond(folders, GeneralCap),
              files        |-> NamesOf(Capped(files, GeneralCap)),
              more_files   |-> Beyond(files, GeneralCap)]

\* DesktopAgent.format_file_content
FormatFileContent(tool_result) ==
    IF "content" \notin DOMAIN tool_result THEN [text |-> "Could not read file content"]
    ELSE IF tool_result.type = "binary"
    THEN [text |-> "{path} is a binary file ({size} bytes)",
          path |-> tool_result.path, size |-> tool_result.size]
    ELSE [text    |-> "Content of {path} ({size} bytes): {preview}",
          path    |-> tool_result.path, size |-> tool_result.size,
          preview |-> Capped(tool_result.content, PreviewCap),
          dots    |-> Len(tool_result.content) > PreviewCap]

\* DesktopAgent.format_file_info
FormatFileInfo(tool_result) ==
    [text |-> "File info for {name}: path {path}, type {type}, size {size}",
     name |-> tool_result.name, path |-> tool_result.path,
     type |-> tool_result.type, size |-> tool_result.size]

ErrorReply(error) == [text |-> "Error: {error}", error |-> error]

\* The formatter of a tool's successful result
FormatSuccess(tool_name, tool_result, original_request, order) ==
    CASE tool_name = "list_directory" ->
            FormatDirectoryListing(tool_result, original_request, order)
      [] tool_name = "read_file" -> FormatFileContent(tool_result)
      [] tool_name = "write_file" ->
            [text |-> "Successfully wrote {size} bytes to {path}",
             size |-> tool_result.size, path |-> tool_result.path]
      [] tool_name = "create_directory" ->
            [text |-> "Successfully created directory: {path}", path |-> tool_result.path]
      [] tool_name = "delete_file" ->
            [text |-> "Successfully deleted: {path}", path |-> tool_result.path]
      [] tool_name = "move_file" ->
            [text   |-> "Successfully moved {source} to {destination}",
             source |-> tool_result.source, destination |-> tool_result.destination]
      [] tool_name = "get_file_info" -> FormatFileInfo(tool_result)
      [] OTHER -> [text |-> "Tool {tool_name} completed: {tool_result}",
                   tool_name |-> tool_name, tool_result |-> tool_result]

\* Faulty variant: the formatter of the tool is tried first, the error after
GenerateFinalResponseToolFirst(tool_name, tool_result, original_request, order) ==
    IF tool_name = "list_directory"
    THEN FormatDirectoryListing(tool_result, original_request, order)
    ELSE IF tool_name = "read_file" THEN FormatFileContent(tool_result)
    ELSE IF "error" \in DOMAIN tool_result THEN ErrorReply(tool_result.error)
    ELSE FormatSuccess(tool_name, tool_result, original_request, order)

\* DesktopAgent.generate_final_response
GenerateFinalResponse(tool_name, tool_result, original_request, order) ==
    IF "error" \in DOMAIN tool_result THEN ErrorReply(tool_result.error)
    ELSE FormatSuccess(tool_name, tool_result, original_request, order)

\* The orders the items of a result can be in
ItemOrders(tool_result) ==
    IF "items" \in DOMAIN tool_result THEN Orders(tool_result.items) ELSE {<<>>}

\* What users ask when the model answers with a listing
Requests ==
    { "list images", "List my Photos and videos", "show the .PNG files in the folder",
      "list folders", "show all directories", "list everything", "play movie.mp4" }

File(name) == [name |-> name, type |-> "file"]

Directory(name) == [name |-> name, type |-> "directory"]

\* Results of list_directory
Listings ==
    { [path |-> AllowedRoot, count |-> 4,
       items |-> {File("a.jpg"), File("b.png"), File("notes.txt"), Directory("sub")}],
      [path |-> AllowedRoot, count |-> 5,
       items |-> {File("B.PNG"), File("v.mp4"), File("w.webp"), Directory("p.png"),
                  File("n.txt")}],
      [path |-> AllowedRoot, count |-> 1, items |-> {Directory("sub")}],
      [path |-> AllowedRoot, count |-> 0, items |-> {}] }

\* The successful results of each tool
Successful(tool_name) ==
    CASE tool_name = "list_directory" -> Listings
      [] tool_name = "read_file" ->
            { [path |-> <<"r", "f">>, content |-> <<"x">>, size |-> 1, type |-> "text"],
              [path |-> <<"r", "b">>, content |-> <<"<Binary file>">>, size |-> 2,
               type |-> "binary"] }
      [] tool_name = "write_file" ->
            { [path |-> <<"r", "f">>, size |-> 1, message |-> "File written successfully"] }
      [] tool_name = "create_directory" ->
            { [path |-> <<"r", "n">>, message |-> "Directory created successfully"] }
      [] tool_name = "delete_file" ->
            { [path |-> <<"r", "f">>, message |-> "File deleted successfully"] }
      [] tool_name = "move_file" ->
            { [source |-> <<"r", "f">>, destination |-> <<"r", "n">>,
               message |-> "File moved successfully"] }
      [] tool_name = "get_file_info" ->
            { [path |-> <<"r", "sub">>, name |-> "sub", type |-> "directory", size |-> 0] }

\* The error payloads a tool's result can be
Failed ==
    { [error |-> "Access denied to path"], [error |-> "Path does not exist"],
      [error |-> "missing 1 required positional argument"] }

\* generate_final_response given a tool, its result and the request
InitFormat ==
    /\ fs = PlainFS
    /\ allowed_directory = AllowedRoot
    /\ calls = 0
    /\ call = NoCall
    /\ safe = <<>>
    /\ result = [kind |-> "none", val |-> <<>>]
    /\ runs = 0
    /\ macro = NoMacro
    /\ trace = <<>>
    /\ reply = NoReply
    /\ conversation_history = <<>>
    /\ turns = 0
    /\ \E tool_name \in ToolNames : \E original_request \in Requests :
       \E tool_result \in Successful(tool_name) \cup Failed :
          turn = [op |-> "generate_final_response", tool_name |-> tool_name,
                  tool_result |-> tool_result, original_request |-> original_request,
                  done |-> FALSE]

GenerateFinalResponseCall ==
    /\ turn.op = "generate_final_response" /\ ~turn.done
    /\ \E order \in ItemOrders(turn.tool_result) :
          turn' = [op |-> "generate_final_response", tool_name |-> turn.tool_name,
                   tool_result |-> turn.tool_result,
                   original_request |-> turn.original_request,
                   done |-> TRUE, order |-> order,
                   reply |-> GenerateFinalResponse(turn.tool_name, turn.tool_result,
                                                   turn.original_request, order)]
    /\ UNCHANGED <<fs, allowed_directory, calls, call, safe, result, runs, macro, trace,
                   reply, conversation_history, turns>>

NextFormat == GenerateFinalResponseCall

SpecFormat == InitFormat /\ [][NextFormat]_vars

-----------------------------------------------------------------------------
(* DesktopAgent.process_user_input: the macros tried in their order, then  *)
(* the model, the tool call found in its response, the tool, the reply.    *)

ValidTools ==
    <<"list_directory", "read_file", "write_file", "create_directory",
      "delete_file", "move_file", "get_file_info">>

MacroRoutes ==
    {"move_images_to_folder", "delete_images", "delete_all_files_in_current_folder",
     "list_folder_contents"}

\* Faulty variant: the delete-all-files test made before the image tests
RouteDeleteAllFirst(user_input) ==
    LET t == Lower(user_input)
    IN  IF Contains(t, "delete all files") \/ Contains(t, "clear all files")
        THEN "delete_all_files_in_current_folder"
        ELSE IF Contains(t, "move") /\ Contains(t, "image") /\ ToWord(t).found
        THEN "move_images_to_folder"
        ELSE IF Contains(t, "delete") /\ Contains(t, "image")
        THEN "delete_images"
        ELSE IF /\ Contains(t, "list")
                /\ (Contains(t, "in") \/ Contains(t, "folder"))
                /\ ExtractFolderName(user_input).found
        THEN "list_folder_contents"
        ELSE "model"

\* The checks of process_user_input before the model is called: the macro
\* that handles the text, "model" when none does
Route(user_input) ==
    LET t == Lower(user_input)
    IN  IF Contains(t, "move") /\ Contains(t, "image") /\ ToWord(t).found
        THEN "move_images_to_folder"
        ELSE IF Contains(t, "delete") /\ Contains(t, "image")
        THEN "delete_images"
        ELSE IF Contains(t, "delete all files") \/ Contains(t, "clear all files")
        THEN "delete_all_files_in_current_folder"
        ELSE IF /\ Contains(t, "list")
                /\ (Contains(t, "in") \/ Contains(t, "folder"))
                /\ ExtractFolderName(user_input).found
        THEN "list_folder_contents"
        ELSE "model"

\* The folder name the macro of a route is given
RouteFolder(user_input, route) ==
    CASE route = "move_images_to_folder" -> ToWord(Lower(user_input)).group
      [] route = "list_folder_contents" -> ExtractFolderName(user_input).group
      [] OTHER -> ""

\* What list_directory(".") can return
Listings1(root, f) == {ListDirectory(root, f, Here, bad).val : bad \in FirstBad(root, f, Here)}

MacroOutcome(batch, out, rep) ==
    [batch |-> batch, fs |-> out.fs, trace |-> out.trace, reply |-> rep]

NoLoop(f) == [fs |-> f, trace |-> <<>>]

\* list_folder_contents: the reply on the listing r of the folder m, its
\* items in the order order
FolderShown(m, r, order) ==
    IF "error" \in DOMAIN r
    THEN [text |-> "Error listing folder '{folder}': {error}",
          folder |-> m, error |-> r.error]
    ELSE IF r.items = {} THEN [text |-> "Folder '{folder}' is empty", folder |-> m]
    ELSE [text    |-> "Contents of '{folder}' ({n} items)", folder |-> m,
          n       |-> Len(order),
          folders |-> NamesOf(SelectSeq(order, LAMBDA it : it.type = "directory")),
          files   |-> NamesOf(SelectSeq(order, LAMBDA it : it.type = "file"))]

FolderListed(m, r) == {FolderShown(m, r, order) : order \in ItemOrders(r)}

\* The directories of a listing whose names start with folder_name
Matching(listing, folder_name) ==
    {it \in listing.items :
        it.type = "directory" /\ StartsWith(Lower(it.name), Lower(folder_name))}

\* DesktopAgent.list_folder_contents on a listing of the root
ListFolderContents(root, f, folder_name, listing) ==
    IF Matching(listing, folder_name) = {}
    THEN {[text |-> "No folder found starting with '{folder}'", folder |-> folder_name]}
    ELSE UNION {UNION {FolderListed(it.name,
                                    ListDirectory(root, f, PathOf(it.name), bad).val) :
                       bad \in FirstBad(root, f, PathOf(it.name))} :
                it \in Matching(listing, folder_name)}

\* What a run of the loop of a macro left, and the macro's reply
MovedImages(b, out) ==
    MacroOutcome(b, out, ImageMacroReply(b, out.trace, "No image files found to move",
                                         "Error moving", "Successfully moved"))

DeletedImages(b, out) ==
    MacroOutcome(b, out, ImageMacroReply(b, out.trace, "No image files found to delete",
                                         "Error deleting", "Successfully deleted"))

DeletedAll(b, out) == MacroOutcome(b, out, DeleteAllReply(b, out.trace))

\* The macro of a route on a listing of the root that has no error
MacroOn(route, folder, root, f, listing) ==
    CASE route = "move_images_to_folder" ->
            {MovedImages(b, MoveLoop(root, f, b, folder, <<>>)) :
                b \in Orders(ImageNames(listing))}
      [] route = "delete_images" ->
            {DeletedImages(b, DeleteLoop(root, f, b, <<>>)) :
                b \in Orders(ImageNames(listing))}
      [] route = "delete_all_files_in_current_folder" ->
            {DeletedAll(b, DeleteAllLoop(root, f, b, <<>>)) :
                b \in Orders(FileNames(listing))}
      [] route = "list_folder_contents" ->
            {MacroOutcome(<<>>, NoLoop(f), rep) :
                rep \in ListFolderContents(root, f, folder, listing)}

\* The macro of a route on a listing of the root
MacroAfter(route, folder, root, f, listing) ==
    IF "error" \in DOMAIN listing
    THEN {MacroOutcome(<<>>, NoLoop(f),
             CASE route = "delete_all_files_in_current_folder" ->
                     ListingFailed("Error listing files to delete", listing)
               [] route = "list_folder_contents" ->
                     ListingFailed("Error listing desktop", listing)
               [] OTHER -> ListingFailed("Error listing files", listing))}
    ELSE MacroOn(route, folder, root, f, listing)

\* What the macro of a route can do: the files it took, the filesystem it
\* left, the calls it made and its reply
MacroOutcomes(route, folder, root, f) ==
    UNION {MacroAfter(route, folder, root, f, listing) : listing \in Listings1(root, f)}

\* Faulty variant: an unknown tool name is never coerced
ValidateToolNameStrict(tool_name, tool_args) ==
    IF tool_name \in ToolNames
    THEN [valid |-> TRUE, tool_name |-> tool_name, tool_args |-> tool_args]
    ELSE [valid |-> FALSE, tool_name |-> tool_name, tool_args |-> tool_args]

\* The validation of the tool name: a name that is not a tool's but has
\* "list" in it, in any case of its letters, stands for list_directory
ValidateToolName(tool_name, tool_args) ==
    IF tool_name \in ToolNames
    THEN [valid |-> TRUE, tool_name |-> tool_name, tool_args |-> tool_args]
    ELSE IF Contains(Lower(tool_name), "list")
    THEN [valid |-> TRUE, tool_name |-> "list_directory",
          tool_args |-> IF tool_args = "" THEN "." ELSE tool_args]
    ELSE [valid |-> FALSE, tool_name |-> tool_name, tool_args |-> tool_args]

\* Faulty variant: the history keeps the latest message only
RememberLatest(history, role, content) == <<[role |-> role, content |-> content]>>

\* self.conversation_history.append({"role": role, "content": content})
Remember(history, role, content) == Append(history, [role |-> role, content |-> content])

UnknownTool(tool_name) ==
    [text |-> "Unknown tool: {tool_name}. Available tools: {valid_tools}",
     tool_name |-> tool_name, valid_tools |-> ValidTools]

\* A reply that is the model's response as it came
Plain(response) == [text |-> response]

Sorry(e) == [text |-> "Sorry, I encountered an error: {e}", e |-> e]

\* What a command left: the filesystem, the history, and the record of the turn
Outcome(f, history, t) == [fs |-> f, history |-> history, turn |-> t]

\* Faulty variant: the user text and the macro's reply are put in the history
MacroTurnRemembered(user_input, route, history, o) ==
    Outcome(o.fs, Remember(Remember(history, "user", user_input), "assistant", o.reply),
            [op |-> "process_user_input", user_input |-> user_input, route |-> route,
             asked |-> FALSE, kind |-> "return", reply |-> o.reply,
             batch |-> o.batch, trace |-> o.trace])

\* A command handled by a macro: process_user_input returns the macro's reply
MacroTurn(user_input, route, history, o) ==
    Outcome(o.fs, history,
            [op |-> "process_user_input", user_input |-> user_input, route |-> route,
             asked |-> FALSE, kind |-> "return", reply |-> o.reply,
             batch |-> o.batch, trace |-> o.trace])

\* The record of a command given to the model
Asked(user_input, response) ==
    [op |-> "process_user_input", user_input |-> user_input, route |-> "model",
     asked |-> TRUE, response |-> response, kind |-> "return"]

\* The call was made: what it did, and the reply final, are kept
ToolCalled(t, found, tool, tool_result, final) ==
    t @@ [called |-> TRUE, extracted |-> found, executed |-> TRUE,
          tool_name |-> tool.tool_name, tool_args |-> tool.tool_args,
          tool_result |-> tool_result, reply |-> final]

\* The reply final is appended to the history and returned
Replied(out, asked, t, found, tool, final) ==
    Outcome(out.fs, Remember(asked, "assistant", final),
            ToolCalled(t, found, tool, out.val, final))

\* execute_tool gave out: the final response is made of its result; had it
\* raised, the handler of process_user_input would answer
Executed(user_input, asked, t, found, tool, out) ==
    IF out.kind = "raise"
    THEN {Outcome(out.fs, Remember(asked, "assistant", Sorry(out.val)),
                  ToolCalled(t, found, tool, [raised |-> out.val], Sorry(out.val)))}
    ELSE {Replied(out, asked, t, found, tool,
                  GenerateFinalResponse(tool.tool_name, out.val, user_input, order)) :
             order \in ItemOrders(out.val)}

\* The tool name was validated as tool tells
Validated(root, f, user_input, asked, t, found, tool) ==
    IF ~tool.valid
    THEN {Outcome(f, asked,
                  t @@ [called |-> TRUE, extracted |-> found, executed |-> FALSE,
                        reply |-> UnknownTool(found.tool_name)])}
    ELSE UNION {Executed(user_input, asked, t, found, tool,
                         ExecuteTool(root, f, tool.tool_name, tool.tool_args, bad)) :
                bad \in ToolBad(root, f, tool.tool_name, tool.tool_args)}

\* The response was searched for a tool call, as found tells
Searched(root, f, user_input, asked, t, response, found) ==
    IF ~found.found
    THEN {Outcome(f, Remember(asked, "assistant", Plain(response)),
                  t @@ [called |-> FALSE, executed |-> FALSE, reply |-> Plain(response)])}
    ELSE Validated(root, f, user_input, asked, t, found,
                   ValidateToolName(found.tool_name, found.tool_args))

\* A command given to the model, whose response was response: what it can
\* leave (the children list_directory fails on and the order of its items
\* are not the agent's to choose)
ModelTurns(root, f, user_input, history, response) ==
    Searched(root, f, user_input, Remember(history, "user", user_input),
             Asked(user_input, response), response, ToolCallMatch(response))

\* What users type: texts for each macro, texts that pass several of the
\* tests, texts that pass the first half of a test only, and texts for the model
UserInputs ==
    { "move images to pics",
      "Move the images into sub",
      "move image list to sub folder and delete",
      "move images",
      "move and delete images",
      "delete all files and images",
      "Clear all files",
      "list files in sub folder",
      "list the Pics folder",
      "listing things",
      "list images",
      "what can you do?" }

\* What the model answers: calls of tools with good and bad arguments, names
\* that are no tool's, the second pattern, no call at all, and the text
\* generate_response returns when the service fails
Responses ==
    { "TOOL_CALL:list_directory(.)",
      "Sure. TOOL_CALL: read_file ('n.txt') done",
      "TOOL_CALL:write_file('note.txt', 'line1\nline2')",
      "TOOL_CALL:write_file(note.txt)",
      "TOOL_CALL:move_file('a.jpg')",
      "TOOL_CALL:move_file('a.jpg', 'sub/a.jpg')",
      "TOOL_CALL:delete_file(../../etc/passwd)",
      "TOOL_CALL:list_drectory()",
      "TOOL_CALL:LIST_FILES('sub')",
      "TOOL_CALL:remove_file('n.txt')",
      "USE_TOOL:get_file_info(sub)",
      "I can list, read and write files.",
      "Error communicating with Ollama: timed out" }

\* The folder the agent works in
AgentFS ==
    (<<>> :> DirNode) @@
    (<<"r">> :> DirNode) @@
    (<<"r", "a.jpg">> :> FileNode(<<"x">>)) @@
    (<<"r", "n.txt">> :> FileNode(<<"x">>)) @@
    (<<"r", "sub">> :> DirNode) @@
    (<<"r", "sub", "c.jpg">> :> FileNode(<<"x">>))

\* How many commands a behaviour gives
MaxTurns == 2

InitAgent ==
    /\ fs = AgentFS
    /\ allowed_directory = AllowedRoot
    /\ calls = 0
    /\ call = NoCall
    /\ safe = <<>>
    /\ result = [kind |-> "none", val |-> <<>>]
    /\ runs = 0
    /\ macro = NoMacro
    /\ trace = <<>>
    /\ reply = NoReply
    /\ conversation_history = <<>>
    /\ turns = 0
    /\ turn = NoTurn

Processed(o) ==
    /\ turns' = turns + 1
    /\ fs' = o.fs
    /\ conversation_history' = o.history
    /\ turn' = o.turn
    /\ UNCHANGED <<allowed_directory, calls, call, safe, result, runs, macro, trace, reply>>

\* A command whose text the checks gave the route route
Routed(user_input, route) ==
    IF route \in MacroRoutes
    THEN \E o \in MacroOutcomes(route, RouteFolder(user_input, route),
                                allowed_directory, fs) :
            Processed(MacroTurn(user_input, route, conversation_history, o))
    ELSE \E response \in Responses :
         \E o \in ModelTurns(allowed_directory, fs, user_input, conversation_history,
                             response) :
            Processed(o)

ProcessUserInput ==
    /\ turns < MaxTurns
    /\ \E user_input \in UserInputs : Routed(user_input, Route(user_input))

\* DesktopAgent.clear_history
ClearHistory ==
    /\ conversation_history' = <<>>
    /\ turn' = [op |-> "clear_history"]
    /\ UNCHANGED <<fs, allowed_directory, calls, call, safe, result, runs, macro, trace,
                   reply, turns>>

NextAgent ==
    \/ ProcessUserInput
    \/ ClearHistory

SpecAgent == InitAgent /\ [][NextAgent]_vars

-----------------------------------------------------------------------------
(* api_server.py: the /command endpoint.  The development server of       *)
(* app.run handles each request in a thread of its own, and all requests    *)
(* call process_user_input of the one global agent; no lock is taken.  A    *)
(* request waits for the model inside ollama.generate_response, and other   *)
(* requests run meanwhile.  turn[r] is where request r is.                  *)

\* How many requests a behaviour sends
MaxRequests == 2

RequestIds == 1..MaxRequests

\* The command of a request: texts for the model, a text for a macro, none
Commands == {"list images", "what can you do?", "delete all files and images", ""}

\* What the model answers to a request
Answers ==
    {"TOOL_CALL:list_directory(.)", "I can list, read and write files.",
     "TOOL_CALL:remove_file('n.txt')"}

Idle == [pc |-> "idle"]

InitServer ==
    /\ fs = AgentFS
    /\ allowed_directory = AllowedRoot
    /\ calls = 0
    /\ call = NoCall
    /\ safe = <<>>
    /\ result = [kind |-> "none", val |-> <<>>]
    /\ runs = 0
    /\ macro = NoMacro
    /\ trace = <<>>
    /\ reply = NoReply
    /\ conversation_history = <<>>
    /\ turns = 0
    /\ turn = [r \in RequestIds |-> Idle]

\* The request r moves on: its record, the filesystem and the history
Served(r, t, f, history) ==
    /\ turn' = [turn EXCEPT ![r] = t]
    /\ fs' = f
    /\ conversation_history' = history
    /\ UNCHANGED <<allowed_directory, calls, call, safe, result, runs, macro, trace, reply>>

\* The request has no command: the answer is the status 400
NoCommand(r) ==
    Served(r, [pc |-> "done", user_command |-> "", status |-> 400], fs, conversation_history)

\* The command is a macro's: process_user_input returns the macro's reply
ByMacro(r, user_command, route) ==
    \E o \in MacroOutcomes(route, RouteFolder(user_command, route), allowed_directory, fs) :
        Served(r, [pc |-> "done", user_command |-> user_command, status |-> 200,
                   route |-> route, reply |-> o.reply],
               o.fs, conversation_history)

\* The command is for the model: the user entry is appended and the
\* transcript handed to generate_response, where the request waits
ToModel(r, user_command, asked) ==
    Served(r, [pc |-> "asked", user_command |-> user_command, route |-> "model",
               user_at |-> Len(asked), transcript |-> asked],
           fs, asked)

\* handle_command receives the request r, up to the wait for the model
Received(r, user_command, route) ==
    IF user_command = "" THEN NoCommand(r)
    ELSE IF route \in MacroRoutes THEN ByMacro(r, user_command, route)
    ELSE ToModel(r, user_command, Remember(conversation_history, "user", user_command))

HandleCommand ==
    \E r \in RequestIds :
        /\ turn[r].pc = "idle"
        /\ turns' = turns + 1
        /\ \E user_command \in Commands :
              Received(r, user_command, Route(user_command))

\* The model answered the request r: process_user_input goes on from the
\* response to its return, on the history as it is now
ModelAnswered ==
    \E r \in RequestIds :
        /\ turn[r].pc = "asked"
        /\ turns' = turns
        /\ \E response \in Answers :
           \E o \in Searched(allowed_directory, fs, turn[r].user_command,
                             conversation_history,
                             Asked(turn[r].user_command, response), response,
                             ToolCallMatch(response)) :
              Served(r, [pc |-> "done", user_command |-> turn[r].user_command,
                         status |-> 200, route |-> "model",
                         user_at |-> turn[r].user_at, transcript |-> turn[r].transcript,
                         response |-> response, reply |-> o.turn.reply],
                     o.fs, o.history)

NextServer ==
    \/ HandleCommand
    \/ ModelAnswered

SpecServer == InitServer /\ [][NextServer]_vars

-----------------------------------------------------------------------------
(* Properties of argument parsing *)

Parsed == turn.op = "execute_tool" /\ turn.done

\* The position of the first comma of s at or after i that is outside any
\* quoting, q being the quote that is open at i ("" when none is); 0 when
\* there is no such comma
RECURSIVE TopLevelComma(_, _, _)
TopLevelComma(s, i, q) ==
    IF i > Len(s) THEN 0
    ELSE IF q = "" /\ Char(s, i) = "," THEN i
    ELSE IF q = "" /\ IsQuote(Char(s, i)) THEN TopLevelComma(s, i + 1, Char(s, i))
    ELSE IF Char(s, i) = q THEN TopLevelComma(s, i + 1, "")
    ELSE TopLevelComma(s, i + 1, q)

\* x without one pair of matching quotes around it
Unquoted(x) ==
    IF Len(x) >= 2 /\ IsQuote(Head(x)) /\ Char(x, Len(x)) = Head(x)
    THEN SubSeq(x, 2, Len(x) - 1)
    ELSE x

\* C13: for write_file the raw argument string is split at its first
\* top-level comma into the path and the content, one level of matching outer
\* quotes is stripped from each, and the content is what was written between
\* its outer quotes, newlines, whitespace and further commas included.
C13_WriteFileSplit ==
    (Parsed /\ turn.tool_name = "write_file" /\ TopLevelComma(turn.tool_args, 1, "") > 0)
        => LET c == TopLevelComma(turn.tool_args, 1, "")
           IN  /\ turn.parsed.found
               /\ turn.parsed.args =
                     <<Unquoted(Strip(SubSeq(turn.tool_args, 1, c - 1))),
                       Unquoted(Strip(From(turn.tool_args, c + 1)))>>

\* C14: for every tool other than write_file the raw argument string is
\* split on commas, each segment is trimmed and loses one level of
\* surrounding matching quotes (mismatched quotes are kept), the order is the
\* written one, and a blank string gives the single argument ".".
C14_ParseSegments ==
    (Parsed /\ turn.tool_name # "write_file")
        => /\ turn.parsed.found
           /\ turn.parsed.args =
                 IF Strip(turn.tool_args) = "" THEN <<".">>
                 ELSE [i \in 1..Len(Split(turn.tool_args, ",")) |->
                          Unquoted(Strip(Split(turn.tool_args, ",")[i]))]

\* C15: the argument list execute_tool dispatches on holds one or two
\* strings, never more.
C15_OneOrTwoArguments ==
    (Parsed /\ turn.parsed.found) => Len(turn.parsed.args) \in {1, 2}

-----------------------------------------------------------------------------
(* Properties of the formatting of replies *)

Formatted == turn.op = "generate_final_response" /\ turn.done

\* C17: whatever the tool, a result with an 'error' field becomes the
\* error-prefixed message carrying that error, and no formatter of a tool has
\* been applied to it.
C17_ErrorShortCircuits ==
    (Formatted /\ "error" \in DOMAIN turn.tool_result)
        => turn.reply = [text |-> "Error: {error}", error |-> turn.tool_result.error]

\* C17 reached: the failed result of a list_directory was formatted
C17_Witness ==
    /\ Formatted
    /\ turn.tool_name = "list_directory"
    /\ turn.tool_result = [error |-> "Access denied to path"]
    /\ turn.reply.error = "Access denied to path"

VideoReplies == {"Found {n} video files", "No video files found on Desktop"}

ImageReplies == {"Found {n} image files", "No image files found on Desktop"}

FolderReplies == {"Found {n} folders on Desktop", "No folders found on Desktop"}

GeneralReplies == {"Desktop contents ({n} total items)"}

Asks(terms) == \E t \in terms : Contains(Lower(turn.original_request), t)

\* The names of the result's entries that end in an extension the image
\* filter knows, whatever the case of the letters
ImageEntries ==
    {it.name : it \in {x \in turn.tool_result.items :
        \E ext \in {".jpg", ".jpeg", ".png", ".gif", ".bmp"} : EndsWith(Lower(x.name), ext)}}

-----------------------------------------------------------------------------
(* Properties of the agent's commands *)

Command == turn.op = "process_user_input"

\* The texts each macro answers with
MacroTexts ==
    [move_images_to_folder |->
        {"No image files found to move", "Error moving", "Successfully moved",
         "Error listing files"},
     delete_images |->
        {"No image files found to delete", "Error deleting", "Successfully deleted",
         "Error listing files"},
     delete_all_files_in_current_folder |->
        {"No files found in the current folder to delete",
         "Deleted files. Some errors occurred",
         "Successfully deleted files in the current folder",
         "Error listing files to delete"},
     list_folder_contents |->
        {"No folder found starting with '{folder}'",
         "Error listing folder '{folder}': {error}",
         "Folder '{folder}' is empty",
         "Contents of '{folder}' ({n} items)",
         "Error listing desktop"}]

\* The command was handled by the macro m alone: the model was not asked
HandledBy(m) ==
    /\ turn.route = m
    /\ ~turn.asked
    /\ turn.reply.text \in MacroTexts[m]

\* The rules of the spec, on the lowercased text
MoveRule(text) ==
    /\ Contains(Lower(text), "move")
    /\ Contains(Lower(text), "image")
    /\ ToWord(Lower(text)).found

DeleteRule(text) == Contains(Lower(text), "delete") /\ Contains(Lower(text), "image")

DeleteAllRule(text) ==
    Contains(Lower(text), "delete all files") \/ Contains(Lower(text), "clear all files")

ListRule(text) ==
    /\ Contains(Lower(text), "list")
    /\ (Contains(Lower(text), "in") \/ Contains(Lower(text), "folder"))
    /\ ExtractFolderName(text).found

\* C11: a command is handled by the macro of the first rule its text matches,
\* in the order bulk move of images, bulk delete of images, delete all files,
\* listing of a named folder, and by that macro alone; a text that matches no
\* rule is given to the model
C11_FirstRuleWins ==
    Command =>
        LET text == turn.user_input
        IN  CASE MoveRule(text)      -> HandledBy("move_images_to_folder")
              [] ~MoveRule(text) /\ DeleteRule(text) -> HandledBy("delete_images")
              [] ~MoveRule(text) /\ ~DeleteRule(text) /\ DeleteAllRule(text) ->
                    HandledBy("delete_all_files_in_current_folder")
              [] ~MoveRule(text) /\ ~DeleteRule(text) /\ ~DeleteAllRule(text)
                    /\ ListRule(text) -> HandledBy("list_folder_contents")
              [] OTHER -> turn.route = "model" /\ turn.asked

\* A text that matches the second and the third rule was handled by the second
C11_Witness ==
    /\ Command
    /\ turn.user_input = "delete all files and images"
    /\ DeleteRule(turn.user_input) /\ DeleteAllRule(turn.user_input)
    /\ HandledBy("delete_images")
    /\ turn.batch = <<"a.jpg">>
    /\ <<"r", "n.txt">> \in DOMAIN fs

\* What becomes of the call the model asked for, of a tool named n with
\* arguments a, when names that have "list" in them (as has(n) tells) stand
\* for list_directory
Dispatched(t, n, a, has(_), before, after) ==
    IF n \in ToolNames
    THEN t.executed /\ t.tool_name = n /\ t.tool_args = a
    ELSE IF has(n)
    THEN /\ t.executed
         /\ t.tool_name = "list_directory"
         /\ t.tool_args = IF a = "" THEN "." ELSE a
    ELSE /\ ~t.executed
         /\ t.reply = UnknownTool(n)
         /\ {ValidTools[i] : i \in 1..Len(ValidTools)} = ToolNames
         /\ after = before

HasList(n) == Contains(n, "list")

HasListAnyCase(n) == Contains(Lower(n), "list")

\* C12: the tool that is executed is one of the seven; a name that is none of
\* them stands for list_directory when it has "list" in it, in any case of its
\* letters (with "." for no arguments, the given arguments otherwise), and any
\* other name ends the command with a reply that names it and lists the seven,
\* the filesystem untouched
C12_ToolNameValidated ==
    [][(turns' = turns + 1 /\ turn'.route = "model" /\ turn'.called) =>
          /\ turn'.executed => turn'.tool_name \in ToolNames
          /\ Dispatched(turn', turn'.extracted.tool_name, turn'.extracted.tool_args,
                        HasListAnyCase, fs, fs')]_vars

\* The misspelled list_drectory() was run as list_directory(.)
C12_Witness ==
    /\ Command
    /\ turn.route = "model"
    /\ turn.called
    /\ turn.extracted.tool_name = "list_drectory"
    /\ turn.extracted.tool_args = ""
    /\ turn.executed
    /\ turn.tool_name = "list_directory"
    /\ turn.tool_args = "."
    /\ "items" \in DOMAIN turn.tool_result

\* C12 as stated: only a name that has "list" in it as written stands for
\* list_directory
C12_ListAsWritten ==
    [][(turns' = turns + 1 /\ turn'.route = "model" /\ turn'.called) =>
          /\ turn'.executed => turn'.tool_name \in ToolNames
          /\ Dispatched(turn', turn'.extracted.tool_name, turn'.extracted.tool_args,
                        HasList, fs, fs')]_vars

\* The call the model asked for was given to execute_tool
ToolRan == Command /\ turn.route = "model" /\ turn.executed

\* The tool was given fewer arguments than its operation takes
TooFewArguments ==
    /\ turn.tool_name = "move_file"
    /\ ToolArguments(turn.tool_name, turn.tool_args).found
    /\ Len(ToolArguments(turn.tool_name, turn.tool_args).args) < 2

\* The arguments of write_file were not a path and a content
NotParsed == ~ToolArguments(turn.tool_name, turn.tool_args).found

\* C16: process_user_input returns a reply and never raises: too few
\* arguments for a tool, arguments that cannot be parsed and a failed
\* filesystem operation become an error payload, and the reply of that
\* command is the error
C16_ErrorsBecomeReplies ==
    /\ Command => turn.kind = "return" /\ "text" \in DOMAIN turn.reply
    /\ ToolRan =>
          /\ "raised" \notin DOMAIN turn.tool_result
          /\ TooFewArguments => "error" \in DOMAIN turn.tool_result
          /\ NotParsed => "error" \in DOMAIN turn.tool_result
          /\ "error" \in DOMAIN turn.tool_result =>
                turn.reply = ErrorReply(turn.tool_result.error)

\* move_file with one argument was answered with the error, and the command
\* after it was carried out
C16_Witness ==
    /\ turns = 2
    /\ Len(conversation_history) = 4
    /\ conversation_history[2].content =
          ErrorReply("missing 1 required positional argument")
    /\ ToolRan
    /\ turn.tool_name = "read_file"
    /\ "error" \notin DOMAIN turn.tool_result
    /\ turn.reply.text = "Content of {path} ({size} bytes): {preview}"

\* The history h is the beginning of the history g, entry for entry
IsPrefix(h, g) ==
    /\ Len(h) <= Len(g)
    /\ \A i \in 1..Len(h) : g[i].role = h[i].role /\ g[i].content = h[i].content

\* C19: a command only appends to the conversation history: the history
\* before it is the beginning of the history after it; every entry is the
\* user's or the assistant's; a history with entries becomes empty by
\* clear_history only
C19_AppendOnly ==
    [][/\ turns' = turns + 1 => IsPrefix(conversation_history, conversation_history')
       /\ \A i \in 1..Len(conversation_history') :
             conversation_history'[i].role \in {"user", "assistant"}
       /\ (Len(conversation_history) > 0 /\ Len(conversation_history') = 0) =>
             turn'.op = "clear_history" /\ turns' = turns]_vars

\* Two commands given to the model: the history has the first text, its
\* reply, the second text and its reply, in this order
C19_Witness ==
    /\ turns = 2
    /\ Command
    /\ Len(conversation_history) = 4
    /\ conversation_history[1].role = "user"
    /\ conversation_history[2].role = "assistant"
    /\ conversation_history[1].content # turn.user_input
    /\ conversation_history[3] = [role |-> "user", content |-> turn.user_input]
    /\ conversation_history[4] = [role |-> "assistant", content |-> turn.reply]

\* The text matches one of the four rules
MacroRule(text) ==
    MoveRule(text) \/ DeleteRule(text) \/ DeleteAllRule(text) \/ ListRule(text)

\* C20: a command handled by a macro does not ask the model and leaves the
\* conversation history as it was: the user's text is not appended, nor the
\* macro's reply
C20_MacroLeavesHistory ==
    [][(turns' = turns + 1 /\ MacroRule(turn'.user_input)) =>
          /\ ~turn'.asked
          /\ Len(conversation_history') = Len(conversation_history)
          /\ IsPrefix(conversation_history, conversation_history')]_vars

\* After a command given to the model, a macro moved an image and the
\* history still has that command's two entries only
C20_Witness ==
    /\ turns = 2
    /\ Command
    /\ turn.route = "move_images_to_folder"
    /\ turn.batch = <<"a.jpg">>
    /\ turn.reply.text = "Successfully moved"
    /\ Len(conversation_history) = 2
    /\ conversation_history[1].content # turn.user_input

\* C21: a command given to the model appends two entries to the history,
\* the user's text and then the reply that is returned, whatever the outcome
\* of the command; so the history has an even length and alternates user,
\* assistant
C21_TwoEntriesPerCommand ==
    [][(turns' = turns + 1 /\ ~MacroRule(turn'.user_input)) =>
          /\ Len(conversation_history') = Len(conversation_history) + 2
          /\ IsPrefix(conversation_history, conversation_history')
          /\ conversation_history'[Len(conversation_history) + 1] =
                [role |-> "user", content |-> turn'.user_input]
          /\ conversation_history'[Len(conversation_history) + 2] =
                [role |-> "assistant", content |-> turn'.reply]
          /\ \A i \in 1..Len(conversation_history') :
                conversation_history'[i].role =
                   IF i % 2 = 1 THEN "user" ELSE "assistant"]_vars

-----------------------------------------------------------------------------
(* Properties of the /command endpoint *)

\* The request r has its user entry in the history and waits for the model
InFlight(t, r) == t[r].pc = "asked"

\* C22: of the requests sent to /command at once, one at a time changes the
\* history: the transcript given to the model for a request has no entry of
\* another request that still waits for the model, and the assistant entry
\* of a request is appended right after its user entry
C22_OneRequestAtATime ==
    [][\A r \in RequestIds :
          /\ (turn[r].pc = "idle" /\ InFlight(turn', r)) =>
                \A q \in RequestIds \ {r} :
                    InFlight(turn, q) => turn[q].user_at > Len(turn'[r].transcript)
          /\ (InFlight(turn, r) /\ turn'[r].pc = "done"
                /\ Len(conversation_history') > Len(conversation_history)) =>
                Len(conversation_history') = turn[r].user_at + 1]_vars

-----------------------------------------------------------------------------
(* Properties of move_file *)

\* move_file was called and both its paths passed _get_safe_path
Moved ==
    /\ Step
    /\ call'.op = "move_file"
    /\ Len(safe') = 2
    /\ safe'[1].status = "ok"
    /\ safe'[2].status = "ok"

\* C23: after a move_file that succeeded the source path is gone and what
\* was moved is at the destination path the result reports, whether the
\* destination was absent, a file or a directory; with a source that does
\* not exist the result is the not-found error and nothing is created
C23_MovedToReportedDestination ==
    [][Moved =>
          /\ Succeeded(result') =>
                /\ ~PathExists(fs', result'.val.source)
                /\ result'.val.destination \in DOMAIN fs'
                /\ fs'[result'.val.destination] = fs[safe'[1].path]
          /\ ~PathExists(fs, safe'[1].path) =>
                /\ FailedWith(result', "Source does not exist")
                /\ fs' = fs]_vars

====
